---- MODULE Spec2Model ----
(***************************************************************************)
(* Content Harvester: the useContentManager hook (ingestion, update,       *)
(* delete, processAll, refresh, loadMore) over the Firebase operations of  *)
(* useFirebaseOperations, with the URL and file validators it calls.       *)
(*                                                                         *)
(* Strings are modelled by their parts: a host is a sequence of labels, a  *)
(* file name a sequence of characters, a URL a record of scheme, host,     *)
(* port and path.  Remote calls are asynchronous: a call is issued by one  *)
(* action and settles (succeeds or fails) in a later one.                  *)
(***************************************************************************)
EXTENDS Integers, Sequences, FiniteSets, TLC

\* ------------------------------------------------------------------ bounds
\* Hook calls started in one behaviour.
MaxCalls == 1
\* Lines of a pasted text, files of one drop.
MaxBatch == 2

\* ------------------------------------------------------------ small helpers
SetMax(S) == CHOOSE m \in S : \A n \in S : n <= m

RECURSIVE SumSeq(_)
SumSeq(s) == IF s = <<>> THEN 0 ELSE Head(s) + SumSeq(Tail(s))

RECURSIVE FilterSeq(_, _)
\* Array.prototype.filter with the kept indices given as a set.
FilterSeq(s, keep) ==
  IF s = <<>> THEN <<>>
  ELSE LET rest == FilterSeq(Tail(s), {i - 1 : i \in keep \ {1}})
       IN  IF 1 \in keep THEN <<Head(s)>> \o rest ELSE rest

Reverse(s) == [i \in 1..Len(s) |-> s[Len(s) + 1 - i]]

Range(s) == {s[i] : i \in 1..Len(s)}

\* String.prototype.toLowerCase on the tokens the model uses.
ToLowerCase(t) ==
  CASE t = "A" -> "a"
    [] t = "P" -> "p"
    [] t = "X" -> "x"
    [] t = "HTTPS:" -> "https:"
    [] OTHER -> t

LowerSeq(s) == [i \in 1..Len(s) |-> ToLowerCase(s[i])]

\* True iff sequence s ends with sequence t.
EndsWith(s, t) ==
  /\ Len(t) <= Len(s)
  /\ \A i \in 1..Len(t) : s[Len(s) - Len(t) + i] = t[i]

\* ------------------------------------------------------------ URL validation
\* Number of characters of a token.
StrLen(t) ==
  CASE t = "" -> 0
    [] t = "/" -> 1
    [] t = "/p" -> 2
    [] t = "80" -> 2
    [] t = "443" -> 3
    [] t = "http:" -> 5
    [] t = "https:" -> 6
    [] t = "HTTPS:" -> 6
    [] t = "ftp:" -> 4
    [] t = "com" -> 3
    [] t = "cc" -> 2
    [] OTHER -> 1

\* Length of the string scheme//host[:port]path.
UrlLength(u) ==
  StrLen(u.scheme) + 2
  + SumSeq([i \in 1..Len(u.host) |-> StrLen(u.host[i])]) + (Len(u.host) - 1)
  + (IF u.port = "" THEN 0 ELSE 1 + StrLen(u.port))
  + StrLen(u.path)

DEFAULT_URL_CONFIG ==
  [allowedProtocols |-> <<"http:", "https:">>,
   blockedDomains   |-> <<>>,
   allowedDomains   |-> <<>>,
   maxUrlLength     |-> 2048]

\* The configuration of the modelled session (a UrlConfig): the defaults with
\* one blocked domain and a length limit that the model's URLs can reach.
urlConfig ==
  [DEFAULT_URL_CONFIG EXCEPT !.blockedDomains = << <<"x", "com">> >>,
                             !.maxUrlLength = 14]

\* new URL(s): the WHATWG parser lower-cases scheme and host, drops the
\* default port of the scheme and gives an empty path of an http(s) URL the
\* value "/".  wf = FALSE stands for a string it rejects.
ParseUrl(raw) ==
  LET scheme == ToLowerCase(raw.scheme)
  IN  [scheme |-> scheme,
       host   |-> LowerSeq(raw.host),
       port   |-> IF \/ (scheme = "http:" /\ raw.port = "80")
                     \/ (scheme = "https:" /\ raw.port = "443")
                  THEN "" ELSE raw.port,
       path   |-> IF raw.path = "" THEN "/" ELSE raw.path,
       wf     |-> TRUE]

\* normalizeUrl: host to lower case, default port removed, pathname "/" set
\* to "" (which the URL object of an http(s) URL serialises as "/" again).
normalizeUrl(url) ==
  LET h == LowerSeq(url.host)
      p == IF \/ (url.scheme = "http:" /\ url.port = "80")
              \/ (url.scheme = "https:" /\ url.port = "443")
           THEN "" ELSE url.port
      path0 == IF url.path = "/" THEN "" ELSE url.path
  IN  [scheme |-> url.scheme, host |-> h, port |-> p,
       path |-> IF path0 = "" THEN "/" ELSE path0, wf |-> TRUE]

DomainMatches(hostname, domains) ==
  \E i \in 1..Len(domains) :
    LET d == LowerSeq(domains[i])
    IN  hostname = d \/ (Len(hostname) > Len(d) /\ EndsWith(hostname, d))

\* A validateUrl for which the allow-list overrides the block-list.
validateUrlAllowFirst(url, config) ==
  IF config.maxUrlLength > 0 /\ UrlLength(url) > config.maxUrlLength
    THEN [url |-> url, isValid |-> FALSE, error |-> "too long"]
  ELSE IF ~url.wf
    THEN [url |-> url, isValid |-> FALSE, error |-> "Invalid URL format"]
  ELSE LET parsedUrl == ParseUrl(url)
           hostname == LowerSeq(parsedUrl.host)
       IN  IF parsedUrl.scheme \notin Range(config.allowedProtocols)
             THEN [url |-> url, isValid |-> FALSE, error |-> "protocol"]
           ELSE IF /\ Len(config.allowedDomains) > 0
                   /\ ~DomainMatches(hostname, config.allowedDomains)
             THEN [url |-> url, isValid |-> FALSE, error |-> "not allowed"]
           ELSE IF /\ Len(config.allowedDomains) = 0
                   /\ Len(config.blockedDomains) > 0
                   /\ DomainMatches(hostname, config.blockedDomains)
             THEN [url |-> url, isValid |-> FALSE, error |-> "blocked"]
           ELSE [url |-> normalizeUrl(parsedUrl), isValid |-> TRUE, error |-> ""]

\* validateUrl(url, config): [url, isValid, error].
validateUrl(url, config) ==
  IF config.maxUrlLength > 0 /\ UrlLength(url) > config.maxUrlLength
    THEN [url |-> url, isValid |-> FALSE, error |-> "too long"]
  ELSE IF ~url.wf
    THEN [url |-> url, isValid |-> FALSE, error |-> "Invalid URL format"]
  ELSE LET parsedUrl == ParseUrl(url)
           hostname == LowerSeq(parsedUrl.host)
       IN  IF parsedUrl.scheme \notin Range(config.allowedProtocols)
             THEN [url |-> url, isValid |-> FALSE, error |-> "protocol"]
           ELSE IF /\ Len(config.blockedDomains) > 0
                   /\ DomainMatches(hostname, config.blockedDomains)
             THEN [url |-> url, isValid |-> FALSE, error |-> "blocked"]
           ELSE IF /\ Len(config.allowedDomains) > 0
                   /\ ~DomainMatches(hostname, config.allowedDomains)
             THEN [url |-> url, isValid |-> FALSE, error |-> "not allowed"]
           ELSE [url |-> normalizeUrl(parsedUrl), isValid |-> TRUE, error |-> ""]

RECURSIVE Dedup(_)
\* [...new Set(a)]: first occurrences, in order.
Dedup(s) ==
  IF s = <<>> THEN <<>>
  ELSE LET init == Dedup(SubSeq(s, 1, Len(s) - 1))
           last == s[Len(s)]
       IN  IF last \in Range(init) THEN init ELSE Append(init, last)

\* extractUrls(text, config).  A text is a sequence of trimmed lines; a line
\* is a raw URL record, the scheme being what the line starts with ("" for a
\* line that starts with no scheme).
extractUrls(text, config) ==
  LET urlLines == FilterSeq(text,
                    {i \in 1..Len(text) :
                       ToLowerCase(text[i].scheme) \in Range(config.allowedProtocols)})
      matched  == FilterSeq(urlLines,
                    {i \in 1..Len(urlLines) :
                       ToLowerCase(urlLines[i].scheme) \in {"http:", "https:"}})
      results  == [i \in 1..Len(matched) |-> validateUrl(matched[i], config)]
      valid    == FilterSeq(results, {i \in 1..Len(results) : results[i].isValid})
  IN  Dedup([i \in 1..Len(valid) |-> valid[i].url])

\* ----------------------------------------------------------- file validation
\* The configuration of the modelled session (a FileTypeConfig).
fileConfig ==
  [allowedExtensions |-> << <<".", "p">> >>,
   blockedExtensions |-> << <<".", "x">> >>,
   maxFileSize       |-> 2,
   maxTotalSize      |-> 3]

\* getFileExtension(filename): from the last dot, lower-cased; "" if there is
\* no dot or the dot is the last character.
getFileExtension(filename) ==
  LET dots == {i \in 1..Len(filename) : filename[i] = "."}
  IN  IF dots = {} \/ SetMax(dots \cup {0}) = Len(filename) THEN <<>>
      ELSE LowerSeq(SubSeq(filename, SetMax(dots), Len(filename)))

\* A validateFile that tests the allow-list before the block-list.
validateFileAllowFirst(file, config) ==
  LET extension == getFileExtension(file.name)
  IN  IF extension = <<>>
        THEN [file |-> file, isValid |-> FALSE, error |-> "no extension"]
      ELSE IF /\ Len(config.allowedExtensions) > 0
              /\ extension \notin Range(config.allowedExtensions)
        THEN [file |-> file, isValid |-> FALSE, error |-> "not allowed"]
      ELSE IF /\ Len(config.allowedExtensions) = 0
              /\ extension \in Range(config.blockedExtensions)
        THEN [file |-> file, isValid |-> FALSE, error |-> "blocked"]
      ELSE IF file.size > config.maxFileSize
        THEN [file |-> file, isValid |-> FALSE, error |-> "too large"]
      ELSE IF file.size = 0
        THEN [file |-> file, isValid |-> FALSE, error |-> "empty"]
      ELSE [file |-> file, isValid |-> TRUE, error |-> ""]

\* validateFile(file, config): [file, isValid, error].
validateFile(file, config) ==
  LET extension == getFileExtension(file.name)
  IN  IF extension = <<>>
        THEN [file |-> file, isValid |-> FALSE, error |-> "no extension"]
      ELSE IF extension \in Range(config.blockedExtensions)
        THEN [file |-> file, isValid |-> FALSE, error |-> "blocked"]
      ELSE IF /\ Len(config.allowedExtensions) > 0
              /\ extension \notin Range(config.allowedExtensions)
        THEN [file |-> file, isValid |-> FALSE, error |-> "not allowed"]
      ELSE IF file.size > config.maxFileSize
        THEN [file |-> file, isValid |-> FALSE, error |-> "too large"]
      ELSE IF file.size = 0
        THEN [file |-> file, isValid |-> FALSE, error |-> "empty"]
      ELSE [file |-> file, isValid |-> TRUE, error |-> ""]

\* The value of an optional number that is not set.
Undefined == -1

\* A validateFiles that marks only the files that are invalid on their own.
validateFilesEach(files, config) ==
  [i \in 1..Len(files) |-> validateFile(files[i], config)]

\* validateFiles(files, config).
validateFiles(files, config) ==
  LET results   == [i \in 1..Len(files) |-> validateFile(files[i], config)]
      totalSize == SumSeq([i \in 1..Len(files) |-> files[i].size])
  IN  IF config.maxTotalSize # Undefined /\ totalSize > config.maxTotalSize
        THEN [i \in 1..Len(files) |->
                [results[i] EXCEPT !.isValid = FALSE, !.error = "total size"]]
        ELSE results

\* -------------------------------------------------------------------- state
VARIABLES
  store,        \* Firestore collection: records in order of creation
  blobs,        \* Firebase Storage: the storage refs that hold a blob
  nextId,       \* next document id (uuidv4 never repeats)
  nextBlob,     \* next storage path (uuidv4 never repeats)
  now,          \* clock read by serverTimestamp() and new Date()
  fb,           \* what the hook is given: firebaseOps, its services, firebaseReady
  queryOptions, \* useState queryOptions: [limit], 0 for no pagination limit
  items,        \* useState items
  loading,      \* useState loading
  error,        \* useState error
  hasMore,      \* useState hasMore
  calls,        \* the hook calls of this behaviour, by slot
  ncalls,       \* user calls started so far
  mountEnv,     \* what the hook was given at its first render
  probe,        \* a validator applied on its own: [fn, arg, config, applied, out]
  drag          \* the useDragDrop hook of the component: options, state, callbacks made

vars == <<store, blobs, nextId, nextBlob, now, fb, queryOptions,
          items, loading, error, hasMore, calls, ncalls, mountEnv, probe, drag>>

remoteVars == <<store, blobs, nextId, nextBlob>>
hookVars   == <<items, loading, error, hasMore>>
\* What no callback of the hook writes.
sessionVars == <<queryOptions, mountEnv, probe, drag>>

\* What the rendering component hands to the hook.
\*   noOps      firebaseOps = null                        (provider, not initialised)
\*   noServices firebaseOps over services = null          (README wiring, not initialised)
\*   notReady   firebaseOps over live services, firebaseReady = false
\*   ready      firebaseOps over live services, firebaseReady = true
FbStates == {"noOps", "noServices", "notReady", "ready"}

HasOps(env)       == env # "noOps"
HasServices(env)  == env \in {"notReady", "ready"}
FirebaseReady(env) == env = "ready"

NoUrl == [scheme |-> "", host |-> <<>>, port |-> "", path |-> "", wf |-> FALSE]

UrlA == [scheme |-> "https:", host |-> <<"a", "com">>, port |-> "", path |-> "/", wf |-> TRUE]
UrlB == [scheme |-> "http:", host |-> <<"b", "com">>, port |-> "", path |-> "/p", wf |-> TRUE]

\* Lines a user can paste.
LineA    == [scheme |-> "https:", host |-> <<"a", "com">>, port |-> "", path |-> "", wf |-> TRUE]
LineAup  == [scheme |-> "HTTPS:", host |-> <<"A", "com">>, port |-> "", path |-> "", wf |-> TRUE]
LineB    == [scheme |-> "http:", host |-> <<"b", "com">>, port |-> "", path |-> "/p", wf |-> TRUE]
LineX    == [scheme |-> "https:", host |-> <<"x", "com">>, port |-> "", path |-> "", wf |-> TRUE]
LineL    == [scheme |-> "https:", host |-> <<"cc", "com">>, port |-> "", path |-> "", wf |-> TRUE]
LineJunk == [scheme |-> "", host |-> <<>>, port |-> "", path |-> "", wf |-> FALSE]
Lines    == {LineA, LineAup, LineB, LineX, LineL, LineJunk}

\* Files a user can drop.
FileA1 == [name |-> <<"a", ".", "p">>, size |-> 1]
FileA2 == [name |-> <<"a", ".", "p">>, size |-> 2]
FileB2 == [name |-> <<"b", ".", "P">>, size |-> 2]
FileX1 == [name |-> <<"v", ".", "x">>, size |-> 1]
Files  == {FileA1, FileA2, FileB2, FileX1}

\* The pasted texts and dropped batches of the model: up to MaxBatch lines or
\* files, the first of them a fixed one.
SeqsUpTo(S, n) == UNION {[1..k -> S] : k \in 1..n}

Texts   == {t \in SeqsUpTo(Lines, MaxBatch) : t[1] \in {LineA, LineX}}
Batches == {b \in SeqsUpTo(Files, MaxBatch) : b[1] \in {FileA2, FileX1}}

\* A ContentItem.  A url item has name = url (the name field is left empty
\* here); a file item has the download URL of its blob in dl.
UrlItem(id, url, status, t) ==
  [id |-> id, type |-> "url", name |-> <<>>, url |-> url, size |-> 0,
   status |-> status, anonymize |-> FALSE, storageRef |-> 0, dl |-> 0,
   error |-> "", updatedAt |-> t]

FileItem(id, file, ref, dl, status, t) ==
  [id |-> id, type |-> "file", name |-> file.name, url |-> NoUrl, size |-> file.size,
   status |-> status, anonymize |-> FALSE, storageRef |-> ref, dl |-> dl,
   error |-> "", updatedAt |-> t]

\* A record whose processing failed: status 'error' with the error message.
Errored(item, message) == [item EXCEPT !.status = "error", !.error = message]

\* What the collection can hold when the hook is mounted: nothing, or records
\* written by earlier sessions.
SeedStore ==
  <<UrlItem(1, UrlA, "pending", 0),
    FileItem(2, FileA1, 1, 1, "pending", 0),
    Errored(UrlItem(3, UrlB, "completed", 0), "boom")>>

Report ==
  [okToasts |-> 0,      \* success(...) calls
   okCount |-> 0,       \* the number named by the ingestion success message
   errToasts |-> 0,     \* showError(...) calls
   failCount |-> 0,     \* failed.length of the ingestion failure message
   invalidCount |-> 0,  \* invalidResults.length of the "Invalid files" message
   dupCount |-> 0,      \* duplicates named by the duplicate warning
   setErr |-> 0,        \* setError('Firebase not initialized') calls
   queries |-> 0,       \* queryContent calls that reached the store
   remote |-> 0]        \* remote operations issued (reads and writes)

\* No validator has been applied on its own.
NoProbe == [fn |-> "none", arg |-> <<>>, config |-> <<>>, applied |-> FALSE, out |-> <<>>]

\* useDragDrop after its first render, with the default options: nothing
\* dragged over, no callback made.  enters and leaves count the dragenter and
\* dragleave events since the last drop or reset; dropped holds the arguments
\* of the onFilesDropped calls of the last drop or selection, errors the
\* number of its onValidationError calls.
DragIdle ==
  [enabled |-> TRUE, multiple |-> TRUE, hasFileConfig |-> FALSE,
   isDragOver |-> FALSE, dragCounter |-> 0, enters |-> 0, leaves |-> 0,
   source |-> "none", files |-> <<>>, dropped |-> <<>>, errors |-> 0]

IdleCall ==
  [kind |-> "none", pc |-> "idle", env |-> "noOps", text |-> <<>>, files |-> <<>>,
   id |-> 0, patch |-> [status |-> "pending"], tasks |-> <<>>, phase |-> 0,
   res |-> <<>>, resMore |-> FALSE, resOk |-> FALSE, ref |-> 0, rep |-> Report]

\* Slot 0 runs the refresh started by the initial-load effect; slots
\* 1..MaxCalls run the calls the user makes, in the order they start; the
\* slot after them runs the second call of a handler that calls loadMore()
\* twice, and the one after that the refresh started by the auto-refresh
\* timer.
EffectSlot == 0
AgainSlot == MaxCalls + 1
TimerSlot == MaxCalls + 2
Slots == 0..TimerSlot

\* The hook is used with autoRefresh on.
autoRefresh == TRUE

Init ==
  /\ \/ (store = <<>> /\ blobs = {} /\ nextId = 1 /\ nextBlob = 1)
     \/ (store = SeedStore /\ blobs = {1} /\ nextId = 4 /\ nextBlob = 2)
  /\ now = 1
  /\ queryOptions \in {[limit |-> 0], [limit |-> 2]}
  /\ items = <<>>
  /\ error = "none"
  /\ hasMore = FALSE
  /\ ncalls = 0
  /\ \/ /\ fb \in {"noOps", "noServices"}
        /\ loading = FALSE
        /\ calls = [s \in Slots |-> IdleCall]
     \/ \* mounted with Firebase ready: the initial-load effect has called
        \* refresh(), which is waiting for its query
        /\ fb = "ready"
        /\ loading = TRUE
        /\ calls = [s \in Slots |->
                     IF s = EffectSlot
                       THEN [IdleCall EXCEPT !.kind = "refresh", !.env = "ready",
                                             !.pc = "query", !.rep.queries = 1,
                                             !.rep.remote = 1]
                       ELSE IdleCall]
  /\ mountEnv = fb
  /\ probe = NoProbe
  /\ drag = DragIdle

\* ------------------------------------------------------------ remote queries
\* queryContent(options) on the collection: orderBy createdAt desc, limit;
\* startAfter is read and ignored.
queryContent(coll, options) ==
  LET docs  == Reverse(coll)
      page  == IF options.limit > 0 /\ Len(docs) > options.limit
               THEN SubSeq(docs, 1, options.limit) ELSE docs
  IN  [items |-> page, hasMore |-> (Len(page) = options.limit)]

\* refresh(), as called by a call in slot s whose closure saw env: the guard,
\* then setLoading(true), setError(null) and the query issued.
RefreshStart(base, s, c, env) ==
  IF ~FirebaseReady(env)
    THEN /\ calls' = [base EXCEPT ![s] = [c EXCEPT !.pc = "done"]]
         /\ UNCHANGED <<loading, error>>
  ELSE IF ~HasOps(env)
    THEN /\ calls' = [base EXCEPT ![s] = [c EXCEPT !.pc = "done", !.rep.setErr = @ + 1]]
         /\ error' = "Firebase not initialized"
         /\ UNCHANGED loading
  ELSE /\ calls' = [base EXCEPT ![s] = [c EXCEPT !.pc = "query", !.rep.queries = @ + 1,
                                                 !.rep.remote = IF HasServices(env)
                                                                THEN @ + 1 ELSE @]]
       /\ loading' = TRUE
       /\ error' = "none"

\* The next free user slot.
FreeSlot == ncalls + 1
CanCall  == ncalls < MaxCalls

\* The call table a new user call starts from: the records of the user calls
\* that have returned are dropped.
Reaped ==
  [s \in Slots |-> IF s # EffectSlot /\ calls[s].pc = "done" THEN IdleCall ELSE calls[s]]

\* The component re-renders the hook with other Firebase props.  When
\* firebaseReady turns true the initial-load effect calls refresh().
FirebaseChange ==
  \E f \in FbStates :
    /\ \/ (fb = "noOps" /\ f = "ready")
       \/ (fb = "noServices" /\ f \in {"notReady", "ready"})
       \/ (fb = "notReady" /\ f = "ready")
    /\ fb' = f
    /\ IF f = "ready"
         THEN /\ calls[EffectSlot].pc \in {"idle", "done"}
              /\ RefreshStart(calls, EffectSlot, [IdleCall EXCEPT !.kind = "refresh", !.env = f], f)
         ELSE UNCHANGED <<calls, loading, error>>
    /\ UNCHANGED <<remoteVars, now, sessionVars, items, hasMore, ncalls>>

\* The interval of the auto-refresh effect fires.  The effect ran once, at
\* mount (its dependencies are autoRefresh and refreshInterval), so the
\* callback it gave to setInterval calls the refresh() of the first render,
\* which reads the firebaseReady and firebaseOps of that render.  One refresh
\* of the timer is followed at a time.
AutoRefreshTick ==
  /\ autoRefresh
  /\ calls[TimerSlot].pc \in {"idle", "done"}
  /\ RefreshStart(calls, TimerSlot,
                  [IdleCall EXCEPT !.kind = "refresh", !.env = mountEnv], mountEnv)
  /\ UNCHANGED <<remoteVars, now, fb, sessionVars, items, hasMore, ncalls>>

\* refresh() called by the user.
CallRefresh ==
  /\ CanCall
  /\ ncalls' = ncalls + 1
  /\ RefreshStart(Reaped, FreeSlot, [IdleCall EXCEPT !.kind = "refresh", !.env = fb], fb)
  /\ UNCHANGED <<remoteVars, now, fb, sessionVars, items, hasMore>>

\* loadMore() called by the user.
CallLoadMore ==
  /\ CanCall
  /\ ncalls' = ncalls + 1
  /\ LET c == [IdleCall EXCEPT !.kind = "loadMore", !.env = fb]
     IN  IF ~HasOps(fb)
           THEN /\ calls' = [Reaped EXCEPT ![FreeSlot] =
                               [c EXCEPT !.pc = "done", !.rep.setErr = @ + 1]]
                /\ error' = "Firebase not initialized"
                /\ UNCHANGED loading
         ELSE IF ~hasMore \/ loading
           THEN /\ calls' = [Reaped EXCEPT ![FreeSlot] = [c EXCEPT !.pc = "done"]]
                /\ UNCHANGED <<loading, error>>
         ELSE /\ calls' = [Reaped EXCEPT ![FreeSlot] =
                             [c EXCEPT !.pc = "query", !.rep.queries = @ + 1,
                                       !.rep.remote = IF HasServices(fb) THEN @ + 1 ELSE @]]
              /\ loading' = TRUE
              /\ UNCHANGED error
  /\ UNCHANGED <<remoteVars, now, fb, sessionVars, items, hasMore>>

\* A handler of the user calls loadMore() twice, one call after the other:
\* both calls run the callback of the same render, so both read the hasMore
\* and loading of that render, whatever the first call has set.
CallLoadMoreTwice ==
  /\ CanCall
  /\ calls[AgainSlot].pc \in {"idle", "done"}
  /\ ncalls' = ncalls + 1
  /\ LET c == [IdleCall EXCEPT !.kind = "loadMore", !.env = fb]
         both(r) == [Reaped EXCEPT ![FreeSlot] = r, ![AgainSlot] = r]
     IN  IF ~HasOps(fb)
           THEN /\ calls' = both([c EXCEPT !.pc = "done", !.rep.setErr = @ + 1])
                /\ error' = "Firebase not initialized"
                /\ UNCHANGED loading
         ELSE IF ~hasMore \/ loading
           THEN /\ calls' = both([c EXCEPT !.pc = "done"])
                /\ UNCHANGED <<loading, error>>
         ELSE /\ calls' = both([c EXCEPT !.pc = "query", !.rep.queries = @ + 1,
                                         !.rep.remote = IF HasServices(fb) THEN @ + 1 ELSE @])
              /\ loading' = TRUE
              /\ UNCHANGED error
  /\ UNCHANGED <<remoteVars, now, fb, sessionVars, items, hasMore>>

\* The store answers the query of the call in slot s, or the query fails
\* (queryContent throws without services).
QueryServe(s) ==
  /\ calls[s].pc = "query"
  /\ \/ /\ HasServices(calls[s].env)
        /\ calls' = [calls EXCEPT ![s].pc = "queried", ![s].resOk = TRUE,
                                  ![s].res = queryContent(store, queryOptions).items,
                                  ![s].resMore = queryContent(store, queryOptions).hasMore]
     \/ calls' = [calls EXCEPT ![s].pc = "queried", ![s].resOk = FALSE]
  /\ UNCHANGED <<remoteVars, now, fb, sessionVars, hookVars, ncalls>>

\* A refresh that keeps what the list held and adds the page to it.
QueryResolveKeeping(s) ==
  /\ calls[s].pc = "queried"
  /\ LET c == calls[s]
     IN  IF c.resOk
           THEN /\ items' = items \o c.res
                /\ hasMore' = c.resMore
                /\ error' = error
                /\ calls' = [calls EXCEPT ![s].pc = "done", ![s].res = <<>>,
                                          ![s].resMore = FALSE]
           ELSE /\ error' = IF c.kind = "loadMore" THEN error ELSE "load failed"
                /\ calls' = [calls EXCEPT ![s].pc = "done", ![s].res = <<>>,
                                          ![s].rep.errToasts = @ + 1]
                /\ UNCHANGED <<items, hasMore>>
  /\ loading' = FALSE
  /\ UNCHANGED <<remoteVars, now, fb, sessionVars, ncalls>>

\* The awaited query settles: the rest of refresh() or loadMore() runs.
QueryResolve(s) ==
  /\ calls[s].pc = "queried"
  /\ LET c == calls[s]
         result == [items |-> c.res, hasMore |-> c.resMore]
     IN  IF c.resOk
           THEN /\ items' = IF c.kind = "loadMore" THEN items \o result.items
                            ELSE result.items
                /\ hasMore' = result.hasMore
                /\ error' = error
                /\ calls' = [calls EXCEPT ![s].pc = "done", ![s].res = <<>>,
                                          ![s].resMore = FALSE]
           ELSE /\ error' = IF c.kind = "loadMore" THEN error ELSE "load failed"
                /\ calls' = [calls EXCEPT ![s].pc = "done", ![s].res = <<>>,
                                          ![s].rep.errToasts = @ + 1]
                /\ UNCHANGED <<items, hasMore>>
  /\ loading' = FALSE
  /\ UNCHANGED <<remoteVars, now, fb, sessionVars, ncalls>>

\* ---------------------------------------------------------------- ingestion
\* One promise of a batch: its candidate, where it stands, and what its
\* remote write returned (the storage path of an upload, the server time of
\* an update).
Task(cand, st) == [cand |-> cand, st |-> st, up |-> 0]

\* Promise.all in place of Promise.allSettled: the join resolves as soon as
\* one promise has rejected.
SettledFailFast(tasks) ==
  \/ \E i \in 1..Len(tasks) : tasks[i].st = "fail"
  \/ \A i \in 1..Len(tasks) : tasks[i].st \in {"ok", "fail"}

Settled(tasks) == \A i \in 1..Len(tasks) : tasks[i].st \in {"ok", "fail"}
CountSt(tasks, st) == Cardinality({i \in 1..Len(tasks) : tasks[i].st = st})

\* A duplicate check of addUrls that looks at the items of the wrong type.
DuplicateUrlsWrongType(urls, list) ==
  {i \in 1..Len(urls) :
     LET validation == validateUrl(urls[i], urlConfig)
     IN  /\ validation.isValid
         /\ \E j \in 1..Len(list) :
              list[j].type = "file" /\ list[j].url = validation.url}

\* The duplicate check of addUrls over the extracted urls: the indices of the
\* valid urls that some url item of the list already has.
DuplicateUrls(urls, list) ==
  {i \in 1..Len(urls) :
     LET validation == validateUrl(urls[i], urlConfig)
     IN  /\ validation.isValid
         /\ \E j \in 1..Len(list) :
              list[j].type = "url" /\ list[j].url = validation.url}

NewUrls(urls, list) ==
  {i \in 1..Len(urls) :
     validateUrl(urls[i], urlConfig).isValid /\ i \notin DuplicateUrls(urls, list)}

\* createContent(data) called with services as in env: it throws at once
\* without services, else setDoc is in flight.
CreateIssued(env) == IF HasServices(env) THEN "create" ELSE "fail"

\* The promise started for one new url.
UrlTask(url, env) ==
  LET validation == validateUrl(url, urlConfig)
  IN  IF ~validation.isValid THEN Task(validation.url, "fail")
      ELSE Task(validation.url, CreateIssued(env))

\* addUrls(text) up to its first await.
CallAddUrls ==
  /\ CanCall
  /\ ncalls' = ncalls + 1
  /\ \E text \in Texts :
       LET c    == [IdleCall EXCEPT !.kind = "addUrls", !.env = fb, !.text = text]
           urls == extractUrls(text, urlConfig)
           dup  == DuplicateUrls(urls, items)
           new  == FilterSeq([i \in 1..Len(urls) |-> validateUrl(urls[i], urlConfig).url],
                             NewUrls(urls, items))
           tasks == [i \in 1..Len(new) |-> UrlTask(new[i], fb)]
           warn == IF dup # {} THEN 1 ELSE 0
       IN  IF ~HasOps(fb)
             THEN /\ calls' = [Reaped EXCEPT ![FreeSlot] =
                                 [c EXCEPT !.pc = "done", !.rep.setErr = @ + 1]]
                  /\ error' = "Firebase not initialized"
           ELSE IF Len(urls) = 0
             THEN /\ calls' = [Reaped EXCEPT ![FreeSlot] =
                                 [c EXCEPT !.pc = "done", !.rep.errToasts = @ + 1]]
                  /\ UNCHANGED error
           ELSE IF Len(new) = 0
             THEN /\ calls' = [Reaped EXCEPT ![FreeSlot] =
                                 [c EXCEPT !.pc = "done",
                                           !.rep.dupCount = Cardinality(dup),
                                           !.rep.errToasts = IF dup = {} THEN 1 ELSE warn]]
                  /\ UNCHANGED error
           ELSE /\ calls' = [Reaped EXCEPT ![FreeSlot] =
                               [c EXCEPT !.pc = "settling", !.tasks = tasks,
                                         !.rep.dupCount = Cardinality(dup),
                                         !.rep.errToasts = warn,
                                         !.rep.remote = CountSt(tasks, "create")]]
                /\ UNCHANGED error
  /\ UNCHANGED <<remoteVars, now, fb, sessionVars, items, loading, hasMore>>

\* A duplicate check of addFiles that compares the names only.
DuplicateFilesByName(validFiles, list) ==
  {i \in 1..Len(validFiles) :
     \E j \in 1..Len(list) :
       /\ list[j].type = "file"
       /\ list[j].name = validFiles[i].name}

\* The duplicate check of addFiles over the valid files.
DuplicateFiles(validFiles, list) ==
  {i \in 1..Len(validFiles) :
     \E j \in 1..Len(list) :
       /\ list[j].type = "file"
       /\ list[j].name = validFiles[i].name
       /\ list[j].size = validFiles[i].size}

\* uploadFile(file) called with services as in env.
UploadIssued(env) == IF HasServices(env) THEN "upload" ELSE "fail"

\* addFiles(files) up to its first await.
CallAddFiles ==
  /\ CanCall
  /\ ncalls' = ncalls + 1
  /\ \E files \in Batches :
       LET c       == [IdleCall EXCEPT !.kind = "addFiles", !.env = fb, !.files = files]
           validationResults == validateFiles(files, fileConfig)
           validIdx == {i \in 1..Len(files) : validationResults[i].isValid}
           validFiles == FilterSeq(files, validIdx)
           invalid == Len(files) - Len(validFiles)
           dup     == DuplicateFiles(validFiles, items)
           newFiles == FilterSeq(validFiles, (1..Len(validFiles)) \ dup)
           tasks   == [i \in 1..Len(newFiles) |-> Task(newFiles[i], UploadIssued(fb))]
           toasts  == (IF invalid > 0 THEN 1 ELSE 0) + (IF dup # {} THEN 1 ELSE 0)
       IN  IF ~HasOps(fb)
             THEN /\ calls' = [Reaped EXCEPT ![FreeSlot] =
                                 [c EXCEPT !.pc = "done", !.rep.setErr = @ + 1]]
                  /\ error' = "Firebase not initialized"
           ELSE IF Len(validFiles) = 0 \/ Len(newFiles) = 0
             THEN /\ calls' = [Reaped EXCEPT ![FreeSlot] =
                                 [c EXCEPT !.pc = "done",
                                           !.rep.invalidCount = invalid,
                                           !.rep.dupCount = Cardinality(dup),
                                           !.rep.errToasts = toasts]]
                  /\ UNCHANGED error
           ELSE /\ calls' = [Reaped EXCEPT ![FreeSlot] =
                               [c EXCEPT !.pc = "settling", !.tasks = tasks,
                                         !.rep.invalidCount = invalid,
                                         !.rep.dupCount = Cardinality(dup),
                                         !.rep.errToasts = toasts,
                                         !.rep.remote = CountSt(tasks, "upload")]]
                /\ UNCHANGED error
  /\ UNCHANGED <<remoteVars, now, fb, sessionVars, items, loading, hasMore>>

\* uploadBytes of task i settles: the blob is stored under a fresh path, and
\* getDownloadURL is called; or it fails.
UploadSettle(s, i) ==
  /\ calls[s].pc = "settling"
  /\ i \in 1..Len(calls[s].tasks)
  /\ calls[s].tasks[i].st = "upload"
  /\ \/ /\ blobs' = blobs \cup {nextBlob}
        /\ nextBlob' = nextBlob + 1
        /\ calls' = [calls EXCEPT ![s].tasks[i].st = "geturl",
                                  ![s].tasks[i].up = nextBlob,
                                  ![s].rep.remote = @ + 1]
     \/ /\ calls' = [calls EXCEPT ![s].tasks[i].st = "fail"]
        /\ UNCHANGED <<blobs, nextBlob>>
  /\ UNCHANGED <<store, nextId, now, fb, sessionVars, hookVars, ncalls>>

\* getDownloadURL of task i settles: uploadFile returns and createContent is
\* called; or it fails.
GetUrlSettle(s, i) ==
  /\ calls[s].pc = "settling"
  /\ i \in 1..Len(calls[s].tasks)
  /\ calls[s].tasks[i].st = "geturl"
  /\ \/ calls' = [calls EXCEPT ![s].tasks[i].st = "create", ![s].rep.remote = @ + 1]
     \/ calls' = [calls EXCEPT ![s].tasks[i].st = "fail"]
  /\ UNCHANGED <<remoteVars, now, fb, sessionVars, hookVars, ncalls>>

\* A record written without the result of the upload.
NewRecordNoRef(kind, task, id, t) ==
  IF kind = "addUrls" THEN UrlItem(id, task.cand, "pending", t)
  ELSE FileItem(id, task.cand, 0, 0, "pending", t)

\* The record createContent writes for a task.
NewRecord(kind, task, id, t) ==
  IF kind = "addUrls" THEN UrlItem(id, task.cand, "pending", t)
  ELSE FileItem(id, task.cand, task.up, task.up, "pending", t)

\* setDoc of task i settles: the record is in the collection; or it fails.
CreateSettle(s, i) ==
  /\ calls[s].pc = "settling"
  /\ i \in 1..Len(calls[s].tasks)
  /\ calls[s].tasks[i].st = "create"
  /\ \/ /\ store' = Append(store, NewRecord(calls[s].kind, calls[s].tasks[i], nextId, now))
        /\ nextId' = nextId + 1
        /\ now' = now + 1
        /\ calls' = [calls EXCEPT ![s].tasks[i].st = "ok"]
     \/ /\ calls' = [calls EXCEPT ![s].tasks[i].st = "fail"]
        /\ UNCHANGED <<store, nextId, now>>
  /\ UNCHANGED <<blobs, nextBlob, fb, sessionVars, hookVars, ncalls>>

\* Promise.allSettled resolves: the rest of addUrls / addFiles runs, up to
\* the await of refresh().
Aggregate(s) ==
  /\ calls[s].pc = "settling"
  /\ calls[s].kind \in {"addUrls", "addFiles"}
  /\ Settled(calls[s].tasks)
  /\ LET c == calls[s]
         successful == CountSt(c.tasks, "ok")
         failed     == CountSt(c.tasks, "fail")
         c1 == [c EXCEPT !.rep.failCount = failed,
                         !.rep.errToasts = IF failed > 0 THEN @ + 1 ELSE @,
                         !.rep.okCount = successful,
                         !.rep.okToasts = IF successful > 0 THEN @ + 1 ELSE @]
     IN  IF successful > 0
           THEN RefreshStart(calls, s, c1, c.env)
           ELSE /\ calls' = [calls EXCEPT ![s] = [c1 EXCEPT !.pc = "done"]]
                /\ UNCHANGED <<loading, error>>
  /\ UNCHANGED <<remoteVars, now, fb, sessionVars, items, hasMore, ncalls>>

\* ------------------------------------------------------- update and delete
HasDoc(coll, id) == \E j \in 1..Len(coll) : coll[j].id = id
DocOf(coll, id)  == coll[CHOOSE j \in 1..Len(coll) : coll[j].id = id]

\* { ...item, ...data, updatedAt: t }
Patched(item, data, t) ==
  [f \in DOMAIN item |->
     IF f = "updatedAt" THEN t
     ELSE IF f \in DOMAIN data THEN data[f] ELSE item[f]]

\* updateDoc(docRef, { ...data, updatedAt: serverTimestamp() }) applied.
UpdateDoc(coll, id, data, t) ==
  [j \in 1..Len(coll) |-> IF coll[j].id = id THEN Patched(coll[j], data, t) ELSE coll[j]]

\* A local patch that forgets the test on the id.
ApplyLocalAll(list, id, data, t) ==
  [j \in 1..Len(list) |-> Patched(list[j], data, t)]

\* setItems(prev => prev.map(item => item.id === id ? {...} : item))
ApplyLocal(list, id, data, t) ==
  [j \in 1..Len(list) |-> IF list[j].id = id THEN Patched(list[j], data, t) ELSE list[j]]

ItemIds(list) == {list[j].id : j \in 1..Len(list)}

\* The patches the model's user applies (UpdateContentData).
Patches ==
  {[anonymize |-> TRUE],
   [status |-> "completed"],
   [status |-> "error", error |-> "boom"]}

\* updateItem(id, data) up to its first await, for a closure that saw env:
\* the state of its task and what it reports at once.
UpdateIssued(env) ==
  IF ~HasOps(env) THEN "noOps"
  ELSE IF ~HasServices(env) THEN "threw"
  ELSE "updateDoc"

\* The report after n updateItem calls started under env.
UpdateReport(rep, env, n) ==
  [rep EXCEPT !.setErr    = IF UpdateIssued(env) = "noOps" THEN @ + n ELSE @,
              !.errToasts = IF UpdateIssued(env) = "threw" THEN @ + n ELSE @,
              !.remote    = IF UpdateIssued(env) = "updateDoc" THEN @ + n ELSE @]

UpdateTask(id, env) ==
  Task(id, IF UpdateIssued(env) = "updateDoc" THEN "updateDoc" ELSE "fail")

\* updateItem(id, data) called by the user (toggleAnonymize is this call with
\* data = {anonymize}).
CallUpdateItem ==
  /\ CanCall
  /\ ncalls' = ncalls + 1
  /\ \E id \in ItemIds(items) \cup {0}, data \in Patches :
       LET c == [IdleCall EXCEPT !.kind = "updateItem", !.env = fb, !.id = id,
                                 !.patch = data, !.tasks = <<UpdateTask(id, fb)>>,
                                 !.rep = UpdateReport(Report, fb, 1)]
       IN  calls' = [Reaped EXCEPT ![FreeSlot] =
                       [c EXCEPT !.pc = IF UpdateIssued(fb) = "updateDoc"
                                        THEN "updating" ELSE "done"]]
  /\ error' = IF HasOps(fb) THEN error ELSE "Firebase not initialized"
  /\ UNCHANGED <<remoteVars, now, fb, sessionVars, items, loading, hasMore>>

\* After task i of the call in slot s has settled: a single updateItem returns.
AfterUpdate(c) ==
  IF c.kind = "updateItem" THEN [c EXCEPT !.pc = "done"] ELSE c

\* updateDoc of task i settles.  It fails when the document does not exist;
\* the catch of updateItem then shows the error.
UpdateDocSettle(s, i) ==
  /\ calls[s].pc = "updating"
  /\ i \in 1..Len(calls[s].tasks)
  /\ calls[s].tasks[i].st = "updateDoc"
  /\ LET c  == calls[s]
         id == c.tasks[i].cand
     IN  \/ /\ HasDoc(store, id)
            /\ store' = UpdateDoc(store, id, c.patch, now)
            /\ now' = now + 1
            /\ calls' = [calls EXCEPT ![s].tasks[i].st = "getDoc",
                                      ![s].tasks[i].up = now,
                                      ![s].rep.remote = @ + 1]
         \/ /\ calls' = [calls EXCEPT ![s] =
                           AfterUpdate([c EXCEPT !.tasks[i].st = "fail",
                                                 !.rep.errToasts = @ + 1])]
            /\ UNCHANGED <<store, now>>
  /\ UNCHANGED <<blobs, nextId, nextBlob, fb, sessionVars, hookVars, ncalls>>

\* getDoc of task i settles and updateContent returns or throws: the rest of
\* updateItem runs.
UpdateFinish(s, i) ==
  /\ calls[s].pc = "updating"
  /\ i \in 1..Len(calls[s].tasks)
  /\ calls[s].tasks[i].st = "getDoc"
  /\ LET c  == calls[s]
         id == c.tasks[i].cand
     IN  \/ /\ HasDoc(store, id)
            /\ items' = ApplyLocal(items, id, c.patch, now)
            /\ now' = now + 1
            /\ calls' = [calls EXCEPT ![s] =
                           AfterUpdate([c EXCEPT !.tasks[i].st = "ok",
                                                 !.rep.okToasts = @ + 1])]
         \/ /\ calls' = [calls EXCEPT ![s] =
                           AfterUpdate([c EXCEPT !.tasks[i].st = "fail",
                                                 !.rep.errToasts = @ + 1])]
            /\ UNCHANGED <<items, now>>
  /\ UNCHANGED <<remoteVars, fb, sessionVars, loading, error, hasMore, ncalls>>

\* deleteItem(id) up to its first await.
CallDeleteItem ==
  /\ CanCall
  /\ ncalls' = ncalls + 1
  /\ \E id \in ItemIds(items) \cup {0} :
       LET c == [IdleCall EXCEPT !.kind = "deleteItem", !.env = fb, !.id = id]
       IN  IF ~HasOps(fb)
             THEN /\ calls' = [Reaped EXCEPT ![FreeSlot] =
                                 [c EXCEPT !.pc = "done", !.rep.setErr = @ + 1]]
                  /\ error' = "Firebase not initialized"
           ELSE IF ~HasServices(fb)
             THEN /\ calls' = [Reaped EXCEPT ![FreeSlot] =
                                 [c EXCEPT !.pc = "done", !.rep.errToasts = @ + 1]]
                  /\ UNCHANGED error
           ELSE /\ calls' = [Reaped EXCEPT ![FreeSlot] =
                               [c EXCEPT !.pc = "delGet", !.rep.remote = @ + 1]]
                /\ UNCHANGED error
  /\ UNCHANGED <<remoteVars, now, fb, sessionVars, items, loading, hasMore>>

\* getDoc of deleteContent settles: a record with a storageRef has its file
\* deleted first, any other goes to deleteDoc; a failed read throws.
DeleteGetDoc(s) ==
  /\ calls[s].pc = "delGet"
  /\ LET c == calls[s]
         storageRef == IF HasDoc(store, c.id) THEN DocOf(store, c.id).storageRef ELSE 0
     IN  \/ calls' = [calls EXCEPT ![s].pc = IF storageRef # 0 THEN "delFile" ELSE "delDoc",
                                   ![s].ref = storageRef,
                                   ![s].rep.remote = @ + 1]
         \/ calls' = [calls EXCEPT ![s].pc = "done", ![s].rep.errToasts = @ + 1]
  /\ UNCHANGED <<remoteVars, now, fb, sessionVars, hookVars, ncalls>>

\* deleteFile(storageRef) without the try/catch around it: its failure makes
\* deleteContent throw.
DeleteFileSettleThrow(s) ==
  /\ calls[s].pc = "delFile"
  /\ \/ /\ blobs' = blobs \ {calls[s].ref}
        /\ calls' = [calls EXCEPT ![s].pc = "delDoc", ![s].phase = 1, ![s].rep.remote = @ + 1]
     \/ /\ UNCHANGED blobs
        /\ calls' = [calls EXCEPT ![s].pc = "done", ![s].phase = 1,
                                  ![s].rep.remote = @ + 1, ![s].rep.errToasts = @ + 1]
  /\ UNCHANGED <<store, nextId, nextBlob, now, fb, sessionVars, hookVars, ncalls>>

\* deleteFile(storageRef) settles; its failure is caught and logged.  Then
\* deleteDoc is called.
DeleteFileSettle(s) ==
  /\ calls[s].pc = "delFile"
  /\ \/ blobs' = blobs \ {calls[s].ref}
     \/ UNCHANGED blobs
  /\ calls' = [calls EXCEPT ![s].pc = "delDoc", ![s].phase = 1, ![s].rep.remote = @ + 1]
  /\ UNCHANGED <<store, nextId, nextBlob, now, fb, sessionVars, hookVars, ncalls>>

DeleteDoc(coll, id) == FilterSeq(coll, {j \in 1..Len(coll) : coll[j].id # id})

\* deleteDoc settles and deleteContent returns or throws: the rest of
\* deleteItem runs.
DeleteDocSettle(s) ==
  /\ calls[s].pc = "delDoc"
  /\ \/ /\ store' = DeleteDoc(store, calls[s].id)
        /\ items' = FilterSeq(items, {j \in 1..Len(items) : items[j].id # calls[s].id})
        /\ calls' = [calls EXCEPT ![s].pc = "done", ![s].phase = 2, ![s].rep.okToasts = @ + 1]
     \/ /\ calls' = [calls EXCEPT ![s].pc = "done", ![s].rep.errToasts = @ + 1]
        /\ UNCHANGED <<store, items>>
  /\ UNCHANGED <<blobs, nextId, nextBlob, now, fb, sessionVars, loading, error, hasMore, ncalls>>

\* ---------------------------------------------------------------- processAll
\* The status the delayed step of processAll writes.
ProcessedStatus == "added"

PendingIds(list) ==
  LET idx == {j \in 1..Len(list) : list[j].status = "pending"}
      pendingItems == FilterSeq(list, idx)
  IN  [j \in 1..Len(pendingItems) |-> pendingItems[j].id]

\* processAll() up to its first await: every pending item of the list gets
\* updateItem(id, {status: 'processing'}).
CallProcessAll ==
  /\ CanCall
  /\ ncalls' = ncalls + 1
  /\ LET pending == PendingIds(items)
         c == [IdleCall EXCEPT !.kind = "processAll", !.env = fb]
     IN  IF Len(pending) = 0
           THEN /\ calls' = [Reaped EXCEPT ![FreeSlot] =
                               [c EXCEPT !.pc = "done", !.rep.errToasts = @ + 1]]
                /\ UNCHANGED error
           ELSE /\ calls' = [Reaped EXCEPT ![FreeSlot] =
                               [c EXCEPT !.pc = "updating", !.phase = 1,
                                         !.patch = [status |-> "processing"],
                                         !.tasks = [j \in 1..Len(pending) |->
                                                      UpdateTask(pending[j], fb)],
                                         !.rep = UpdateReport(Report, fb, Len(pending))]]
                /\ error' = IF HasOps(fb) THEN error ELSE "Firebase not initialized"
  /\ UNCHANGED <<remoteVars, now, fb, sessionVars, items, loading, hasMore>>

\* Promise.all over the updateItem calls resolves (updateItem never rejects):
\* the success toast, and the timer is set.
ProcessAllStarted(s) ==
  /\ calls[s].kind = "processAll"
  /\ calls[s].pc = "updating"
  /\ calls[s].phase = 1
  /\ Settled(calls[s].tasks)
  /\ calls' = [calls EXCEPT ![s].pc = "timer", ![s].rep.okToasts = @ + 1,
                            ![s].rep.okCount = Len(calls[s].tasks)]
  /\ UNCHANGED <<remoteVars, now, fb, sessionVars, hookVars, ncalls>>

\* The delay elapses: updateItem(id, {status}) for every item that was
\* pending at the call.
TimerFire(s) ==
  /\ calls[s].pc = "timer"
  /\ LET c == calls[s]
     IN  /\ calls' = [calls EXCEPT ![s] =
                        [c EXCEPT !.pc = "updating", !.phase = 2,
                                  !.patch = [status |-> ProcessedStatus],
                                  !.tasks = [j \in 1..Len(c.tasks) |->
                                               UpdateTask(c.tasks[j].cand, c.env)],
                                  !.rep = UpdateReport(c.rep, c.env, Len(c.tasks))]]
         /\ error' = IF HasOps(c.env) THEN error ELSE "Firebase not initialized"
  /\ UNCHANGED <<remoteVars, now, fb, sessionVars, items, loading, hasMore, ncalls>>

\* Promise.allSettled of the delayed step resolves.
ProcessAllDone(s) ==
  /\ calls[s].kind = "processAll"
  /\ calls[s].pc = "updating"
  /\ calls[s].phase = 2
  /\ Settled(calls[s].tasks)
  /\ calls' = [calls EXCEPT ![s].pc = "done"]
  /\ UNCHANGED <<remoteVars, now, fb, sessionVars, hookVars, ncalls>>

Next ==
  \/ FirebaseChange
  \/ AutoRefreshTick
  \/ CallRefresh
  \/ CallLoadMore
  \/ CallLoadMoreTwice
  \/ CallAddUrls
  \/ CallAddFiles
  \/ CallUpdateItem
  \/ CallDeleteItem
  \/ CallProcessAll
  \/ \E s \in Slots : QueryServe(s)
  \/ \E s \in Slots : QueryResolve(s)
  \/ \E s \in Slots : \E i \in 1..Len(calls[s].tasks) : UploadSettle(s, i)
  \/ \E s \in Slots : \E i \in 1..Len(calls[s].tasks) : GetUrlSettle(s, i)
  \/ \E s \in Slots : \E i \in 1..Len(calls[s].tasks) : CreateSettle(s, i)
  \/ \E s \in Slots : Aggregate(s)
  \/ \E s \in Slots : \E i \in 1..Len(calls[s].tasks) : UpdateDocSettle(s, i)
  \/ \E s \in Slots : \E i \in 1..Len(calls[s].tasks) : UpdateFinish(s, i)
  \/ \E s \in Slots : DeleteGetDoc(s)
  \/ \E s \in Slots : DeleteFileSettle(s)
  \/ \E s \in Slots : DeleteDocSettle(s)
  \/ \E s \in Slots : ProcessAllStarted(s)
  \/ \E s \in Slots : TimerFire(s)
  \/ \E s \in Slots : ProcessAllDone(s)

Spec == Init /\ [][Next]_vars

\* ------------------------------------------------------------------ getStats
\* counts[key] = (counts[key] || 0) + 1 on an object used as a counter.
Bump(counts, key) ==
  [k \in DOMAIN counts \cup {key} |->
     (IF k \in DOMAIN counts THEN counts[k] ELSE 0) + (IF k = key THEN 1 ELSE 0)]

\* One turn of the forEach of getStats.
StatsStep(stats, item) ==
  [total         |-> stats.total,
   byType        |-> Bump(stats.byType, item.type),
   byStatus      |-> Bump(stats.byStatus, item.status),
   totalFileSize |-> IF item.size # 0 THEN stats.totalFileSize + item.size
                     ELSE stats.totalFileSize]

\* A forEach that adds one for every item with a size.
StatsStepCounting(stats, item) ==
  [total         |-> stats.total,
   byType        |-> Bump(stats.byType, item.type),
   byStatus      |-> Bump(stats.byStatus, item.status),
   totalFileSize |-> IF item.size # 0 THEN stats.totalFileSize + 1
                     ELSE stats.totalFileSize]

RECURSIVE StatsFold(_, _)
StatsFold(stats, list) ==
  IF list = <<>> THEN stats
  ELSE StatsFold(StatsStep(stats, Head(list)), Tail(list))

RECURSIVE StatsFoldCounting(_, _)
StatsFoldCounting(stats, list) ==
  IF list = <<>> THEN stats
  ELSE StatsFoldCounting(StatsStepCounting(stats, Head(list)), Tail(list))

\* A getStats whose totalFileSize is the number of items with a size.
getStatsCounting(list) ==
  StatsFoldCounting([total |-> Len(list), byType |-> [k \in {} |-> 0],
                     byStatus |-> [k \in {} |-> 0], totalFileSize |-> 0], list)

\* getStats() over the item list.
getStats(list) ==
  StatsFold([total |-> Len(list), byType |-> [k \in {} |-> 0],
             byStatus |-> [k \in {} |-> 0], totalFileSize |-> 0], list)

\* ------------------------------------------------ the validators on their own
\* File sizes a validator is applied to.
MaxProbeSize == 3

ProbeNames ==
  {<<"a", ".", "p">>, <<"a", ".", "P">>, <<"a", ".", "x">>, <<"a">>,
   <<"a", ".">>, <<"a", ".", "x", ".", "p">>}

ProbeFiles == [name : ProbeNames, size : 0..MaxProbeSize]

ExtensionLists ==
  {<<>>, << <<".", "p">> >>, << <<".", "P">> >>, << <<".", "x">> >>,
   << <<".", "p">>, <<".", "x">> >>}

FileConfigs ==
  [allowedExtensions : ExtensionLists, blockedExtensions : ExtensionLists,
   maxFileSize : {2}, maxTotalSize : {Undefined, 0, 3}]

ProbeUrls ==
  [scheme : {"http:", "https:", "HTTPS:", "ftp:"},
   host   : {<<"a", "com">>, <<"x", "com">>, <<"s", "x", "com">>, <<"X", "com">>,
             <<"cc", "com">>},
   port   : {"", "443"},
   path   : {"", "/p"},
   wf     : {TRUE}] \cup {LineJunk}

UrlConfigs ==
  [allowedProtocols : {<<"http:", "https:">>, <<"https:">>, <<"ftp:", "https:">>},
   blockedDomains   : {<<>>, << <<"x", "com">> >>, << <<"X", "com">> >>},
   allowedDomains   : {<<>>, << <<"a", "com">> >>, << <<"x", "com">> >>},
   maxUrlLength     : {0, 14, 2048}]

\* Items of an item list that getStats is applied to.
MaxList == 3

ContentStatus == {"pending", "processing", "completed", "error"}

\* What an item is, its id apart: a url item, or a file item of some file.
ItemShapes ==
  [type : {"url"}, status : ContentStatus, file : {FileA1}]
  \cup [type : {"file"}, status : ContentStatus, file : {FileA1, FileA2}]

ItemOf(shape, id) ==
  IF shape.type = "url" THEN UrlItem(id, UrlA, shape.status, 0)
  ELSE FileItem(id, shape.file, id, id, shape.status, 0)

\* The item lists of up to MaxList items, the empty one included; the ids
\* are the positions.
ItemLists ==
  {<<>>} \cup {[j \in 1..Len(shapes) |-> ItemOf(shapes[j], j)] :
                 shapes \in SeqsUpTo(ItemShapes, MaxList)}

\* The applications of a validator or of getStats that the model follows.
Probes ==
  [fn : {"validateFile"}, arg : ProbeFiles, config : FileConfigs,
   applied : {FALSE}, out : {<<>>}]
  \cup [fn : {"validateFiles"}, arg : SeqsUpTo(ProbeFiles, MaxBatch),
        config : FileConfigs, applied : {FALSE}, out : {<<>>}]
  \cup [fn : {"validateUrl"}, arg : ProbeUrls, config : UrlConfigs,
        applied : {FALSE}, out : {<<>>}]
  \cup [fn : {"extractUrls"}, arg : SeqsUpTo(Lines, MaxBatch), config : UrlConfigs,
        applied : {FALSE}, out : {<<>>}]
  \cup [fn : {"getStats"}, arg : ItemLists, config : {<<>>},
        applied : {FALSE}, out : {<<>>}]

\* A validator is about to be called; the hook is mounted and idle.
InitPure ==
  /\ probe \in Probes
  /\ store = <<>> /\ blobs = {} /\ nextId = 1 /\ nextBlob = 1
  /\ now = 1
  /\ fb = "noOps"
  /\ queryOptions = [limit |-> 0]
  /\ items = IF probe.fn = "getStats" THEN probe.arg ELSE <<>>
  /\ loading = FALSE
  /\ error = "none"
  /\ hasMore = FALSE
  /\ calls = [s \in Slots |-> IdleCall]
  /\ ncalls = 0
  /\ mountEnv = "noOps"
  /\ drag = DragIdle

\* The validator fn has been called and has not returned.
Called(fn) == probe.fn = fn /\ ~probe.applied

\* The call returns out.
Returned(out) == [probe EXCEPT !.applied = TRUE, !.out = out]

ApplyValidateFile ==
  /\ Called("validateFile")
  /\ probe' = Returned(validateFile(probe.arg, probe.config))
  /\ UNCHANGED <<remoteVars, now, fb, queryOptions, mountEnv, drag, hookVars, calls, ncalls>>

ApplyValidateFiles ==
  /\ Called("validateFiles")
  /\ probe' = Returned(validateFiles(probe.arg, probe.config))
  /\ UNCHANGED <<remoteVars, now, fb, queryOptions, mountEnv, drag, hookVars, calls, ncalls>>

ApplyValidateUrl ==
  /\ Called("validateUrl")
  /\ probe' = Returned(validateUrl(probe.arg, probe.config))
  /\ UNCHANGED <<remoteVars, now, fb, queryOptions, mountEnv, drag, hookVars, calls, ncalls>>

ApplyExtractUrls ==
  /\ Called("extractUrls")
  /\ probe' = Returned(extractUrls(probe.arg, probe.config))
  /\ UNCHANGED <<remoteVars, now, fb, queryOptions, mountEnv, drag, hookVars, calls, ncalls>>

\* getStats() is called with the item list of the render.
ApplyGetStats ==
  /\ Called("getStats")
  /\ probe' = Returned(getStats(items))
  /\ UNCHANGED <<remoteVars, now, fb, queryOptions, mountEnv, drag, hookVars, calls, ncalls>>

NextPure ==
  \/ ApplyGetStats
  \/ ApplyValidateFile
  \/ ApplyValidateFiles
  \/ ApplyValidateUrl
  \/ ApplyExtractUrls

SpecPure == InitPure /\ [][NextPure]_vars

\* -------------------------------------------------------------- useDragDrop
\* dragenter and dragleave events followed between two drops or resets.
MaxDragEvents == 3

\* What a user drops on the zone or selects in the file input.
Drops == SeqsUpTo(Files, MaxBatch)

\* useDragDrop is rendered for the first time with some options; the content
\* manager is mounted and idle.
InitDrag ==
  /\ store = <<>> /\ blobs = {} /\ nextId = 1 /\ nextBlob = 1
  /\ now = 1
  /\ fb = "noOps"
  /\ queryOptions = [limit |-> 0]
  /\ items = <<>>
  /\ loading = FALSE
  /\ error = "none"
  /\ hasMore = FALSE
  /\ calls = [s \in Slots |-> IdleCall]
  /\ ncalls = 0
  /\ mountEnv = "noOps"
  /\ probe = NoProbe
  /\ \E e, m, c \in BOOLEAN :
       drag = [DragIdle EXCEPT !.enabled = e, !.multiple = m, !.hasFileConfig = c]

dragFixed == <<remoteVars, now, fb, queryOptions, mountEnv, probe, hookVars, calls, ncalls>>

\* handleDragEnter
handleDragEnter ==
  /\ drag.enters < MaxDragEvents
  /\ LET newCounter == drag.dragCounter + 1
         seen == [drag EXCEPT !.enters = @ + 1]
     IN  drag' = IF ~drag.enabled THEN seen
                 ELSE [seen EXCEPT !.dragCounter = newCounter,
                                   !.isDragOver = IF newCounter = 1 THEN TRUE ELSE @]
  /\ UNCHANGED dragFixed

\* handleDragLeave
handleDragLeave ==
  /\ drag.leaves < MaxDragEvents
  /\ LET newCounter == drag.dragCounter - 1
         seen == [drag EXCEPT !.leaves = @ + 1]
     IN  drag' = IF ~drag.enabled THEN seen
                 ELSE [seen EXCEPT !.dragCounter = newCounter,
                                   !.isDragOver = IF newCounter = 0 THEN FALSE ELSE @]
  /\ UNCHANGED dragFixed

\* validateAndProcessFiles(files) that reports a rejected selection of several
\* files and then goes on.
validateAndProcessFilesLenient(d, source, fileArray) ==
  LET d0 == [d EXCEPT !.source = source, !.files = fileArray,
                      !.dropped = <<>>, !.errors = 0]
      d1 == IF ~d.multiple /\ Len(fileArray) > 1
              THEN [d0 EXCEPT !.errors = @ + 1] ELSE d0
  IN  IF Len(fileArray) = 0 THEN d0
      ELSE IF d.hasFileConfig
        THEN LET validationResults == validateFiles(fileArray, fileConfig)
                 valid == {i \in 1..Len(fileArray) : validationResults[i].isValid}
                 validFiles == FilterSeq(fileArray, valid)
             IN  [d1 EXCEPT !.errors = IF Cardinality(valid) < Len(fileArray)
                                       THEN @ + 1 ELSE @,
                            !.dropped = IF Len(validFiles) > 0
                                        THEN <<validFiles>> ELSE <<>>]
      ELSE [d1 EXCEPT !.dropped = <<fileArray>>]

\* validateAndProcessFiles(files), from the drop or the file input: the hook
\* after the calls of onValidationError and onFilesDropped.
validateAndProcessFiles(d, source, fileArray) ==
  LET d0 == [d EXCEPT !.source = source, !.files = fileArray,
                      !.dropped = <<>>, !.errors = 0]
  IN  IF Len(fileArray) = 0 THEN d0
      ELSE IF ~d.multiple /\ Len(fileArray) > 1
        THEN [d0 EXCEPT !.errors = @ + 1]
      ELSE IF d.hasFileConfig
        THEN LET validationResults == validateFiles(fileArray, fileConfig)
                 valid == {i \in 1..Len(fileArray) : validationResults[i].isValid}
                 validFiles == FilterSeq(fileArray, valid)
             IN  [d0 EXCEPT !.errors = IF Cardinality(valid) < Len(fileArray)
                                       THEN @ + 1 ELSE @,
                            !.dropped = IF Len(validFiles) > 0
                                        THEN <<validFiles>> ELSE <<>>]
      ELSE [d0 EXCEPT !.dropped = <<fileArray>>]

\* A drop that leaves isDragOver and the counter as they are.
DropKeepingState(d) == [d EXCEPT !.enters = 0, !.leaves = 0]

\* setIsDragOver(false); setDragCounter(0) of handleDrop and resetDragState.
DropResets(d) ==
  [d EXCEPT !.isDragOver = FALSE, !.dragCounter = 0, !.enters = 0, !.leaves = 0]

\* handleDrop, with the files of the data transfer (none for a drop of text).
handleDrop ==
  /\ \E files \in Drops \cup {<<>>} :
       drag' = IF ~drag.enabled THEN drag
               ELSE validateAndProcessFiles(DropResets(drag), "drop", files)
  /\ UNCHANGED dragFixed

\* handleFileInputChange, with the files selected in the input.
handleFileInputChange ==
  /\ \E files \in Drops :
       drag' = validateAndProcessFiles(drag, "select", files)
  /\ UNCHANGED dragFixed

\* resetDragState
resetDragState ==
  /\ drag' = DropResets(drag)
  /\ UNCHANGED dragFixed

NextDrag ==
  \/ handleDragEnter
  \/ handleDragLeave
  \/ handleDrop
  \/ handleFileInputChange
  \/ resetDragState

SpecDrag == InitDrag /\ [][NextDrag]_vars

\* ===================================================================== claims
UserSlots == 1..MaxCalls

IsIngestion(c) == c.kind \in {"addUrls", "addFiles"}

\* The candidates of an ingestion call and those of them that fail validation:
\* the lines of the text that start with an allowed protocol, the files of the
\* drop.
Candidates(c) ==
  IF c.kind = "addUrls"
    THEN {i \in 1..Len(c.text) :
            ToLowerCase(c.text[i].scheme) \in Range(urlConfig.allowedProtocols)}
    ELSE 1..Len(c.files)

FailValidation(c) ==
  IF c.kind = "addUrls"
    THEN {i \in Candidates(c) : ~validateUrl(c.text[i], urlConfig).isValid}
    ELSE {i \in Candidates(c) : ~validateFiles(c.files, fileConfig)[i].isValid}

\* Failures an ingestion call has reported: rejected candidates and failed
\* persistence.
FailuresReported(c) == c.rep.invalidCount + c.rep.failCount

\* C1: for an ingestion call on N candidates of which K fail validation, the
\* other N-K being no duplicates and all persisted, the call reports N-K
\* successes and exactly K failures.
C1_SummaryCounts ==
  \A s \in UserSlots :
    LET c == calls[s]
        n == Cardinality(Candidates(c))
        k == Cardinality(FailValidation(c))
    IN  ( /\ IsIngestion(c)
          /\ c.pc = "done"
          /\ HasServices(c.env)
          /\ c.rep.dupCount = 0
          /\ n > k
          /\ CountSt(c.tasks, "ok") = n - k )
        => (c.rep.okCount = n - k /\ FailuresReported(c) = k)

\* C2: an ingestion call issues exactly one refresh query when at least one
\* candidate was persisted, and none when no candidate was persisted.
C2_OneRefreshPerIngestion ==
  \A s \in UserSlots :
    LET c == calls[s]
    IN  (IsIngestion(c) /\ c.pc = "done")
        => c.rep.queries = IF CountSt(c.tasks, "ok") > 0 THEN 1 ELSE 0

\* ---------------------------------------------------------------------- C3
\* What an ingestion call has reported of its batch once the join resolved.
BatchReported(c) ==
  /\ \A i \in 1..Len(c.tasks) : c.tasks[i].st \in {"ok", "fail"}
  /\ c.rep.okCount = CountSt(c.tasks, "ok")
  /\ c.rep.failCount = CountSt(c.tasks, "fail")
  /\ c.rep.okToasts = IF CountSt(c.tasks, "ok") > 0 THEN 1 ELSE 0
  /\ CountSt(c.tasks, "fail") > 0 => c.rep.errToasts >= 1

NothingReported(c) ==
  c.rep.okCount = 0 /\ c.rep.failCount = 0 /\ c.rep.okToasts = 0

\* Task i of the call in slot s fails in this step.
TaskFails(s, i) ==
  /\ calls[s].pc = "settling"
  /\ i \in 1..Len(calls[s].tasks)
  /\ calls[s].tasks[i].st \notin {"ok", "fail"}
  /\ Len(calls'[s].tasks) = Len(calls[s].tasks)
  /\ calls'[s].tasks[i].st = "fail"

SiblingsUntouched(s, i) ==
  \A j \in 1..Len(calls[s].tasks) :
    j # i => calls'[s].tasks[j] = calls[s].tasks[j]

\* C3: in an ingestion batch nothing is reported while a candidate's
\* persistence is in flight, the outcome reported after the join counts every
\* candidate as succeeded or failed, and the failure of one candidate leaves
\* its siblings in flight and the call running.
C3_WaitForAll ==
  /\ [](\A s \in UserSlots :
          (IsIngestion(calls[s]) /\ calls[s].tasks # <<>>)
          => IF calls[s].pc = "settling" THEN NothingReported(calls[s])
             ELSE BatchReported(calls[s]))
  /\ [][\A s \in UserSlots : \A i \in 1..Len(calls[s].tasks) :
          (IsIngestion(calls[s]) /\ TaskFails(s, i))
          => (calls'[s].pc = "settling" /\ SiblingsUntouched(s, i)
              /\ UNCHANGED <<store, items>>)]_vars

\* An ingestion batch that returned with its first candidate failed and its
\* second persisted.
C3_Witness ==
  \E s \in UserSlots :
    /\ IsIngestion(calls[s])
    /\ calls[s].pc = "done"
    /\ Len(calls[s].tasks) = 2
    /\ calls[s].tasks[1].st = "fail"
    /\ calls[s].tasks[2].st = "ok"
    /\ calls[s].rep.okCount = 1
    /\ calls[s].rep.failCount = 1

\* ---------------------------------------------------------------------- C4
\* The record this step appends to the collection, if it appends one.
Appends == Len(store') = Len(store) + 1 /\ SubSeq(store', 1, Len(store)) = store
Appended == store'[Len(store')]

\* The file records of the collection that carry the path of upload up.
RecordsOf(up) == {j \in 1..Len(store) : store[j].type = "file" /\ store[j].storageRef = up}

\* C4: a file record enters the collection only in the step that settles the
\* createContent of an addFiles task whose upload has stored a blob, and it
\* carries that upload's path and download URL and the file's name and size; a
\* task whose upload failed has no record, and its failure leaves the sibling
\* tasks as they were.
C4_RecordAfterUpload ==
  /\ [][(Appends /\ Appended.type = "file")
        => \E s \in UserSlots : \E i \in 1..Len(calls[s].tasks) :
             LET task == calls[s].tasks[i]
             IN  /\ calls[s].kind = "addFiles"
                 /\ task.st = "create"
                 /\ calls'[s].tasks[i].st = "ok"
                 /\ task.up # 0
                 /\ task.up \in blobs
                 /\ Appended.storageRef = task.up
                 /\ Appended.dl = task.up
                 /\ Appended.name = task.cand.name
                 /\ Appended.size = task.cand.size
                 /\ RecordsOf(task.up) = {}]_vars
  /\ [](\A s \in UserSlots : \A i \in 1..Len(calls[s].tasks) :
          (calls[s].kind = "addFiles" /\ calls[s].tasks[i].up = 0)
          => calls[s].tasks[i].st \in {"upload", "fail"})
  /\ [][\A s \in UserSlots : \A i \in 1..Len(calls[s].tasks) :
          (calls[s].kind = "addFiles" /\ TaskFails(s, i))
          => (SiblingsUntouched(s, i) /\ UNCHANGED store)]_vars

\* An addFiles batch whose first upload failed and whose second file has its
\* record, with the path of its blob.
C4_Witness ==
  \E s \in UserSlots :
    /\ calls[s].kind = "addFiles"
    /\ Len(calls[s].tasks) = 2
    /\ calls[s].tasks[1].st = "fail"
    /\ calls[s].tasks[1].up = 0
    /\ calls[s].tasks[2].st = "ok"
    /\ \E j \in RecordsOf(calls[s].tasks[2].up) :
         store[j].name = calls[s].tasks[2].cand.name

\* ---------------------------------------------------------------- C5, C6
\* The step in which the user starts a call of kind k, in slot s.
Starts(s, k) == ncalls' = ncalls + 1 /\ s = ncalls + 1 /\ calls'[s].kind = k

\* The valid candidates of a pasted text, normalized, in order.
ValidCandidates(text) ==
  LET urls == extractUrls(text, urlConfig)
      v    == [i \in 1..Len(urls) |-> validateUrl(urls[i], urlConfig)]
  IN  FilterSeq([i \in 1..Len(urls) |-> v[i].url], {i \in 1..Len(urls) : v[i].isValid})

IsUrlDuplicate(u, list) ==
  \E j \in 1..Len(list) : list[j].type = "url" /\ list[j].url = u

\* C5: addUrls counts as duplicates exactly the valid candidates whose
\* normalized URL some url item of the list has, starts one createContent for
\* every other valid candidate and none for a duplicate, and counts no
\* duplicate among the failures.
C5_UrlDuplicates ==
  /\ [][\A s \in UserSlots :
          (Starts(s, "addUrls") /\ HasOps(fb))
          => LET c      == calls'[s]
                 cands  == ValidCandidates(c.text)
                 dupIdx == {i \in 1..Len(cands) : IsUrlDuplicate(cands[i], items)}
                 fresh  == FilterSeq(cands, (1..Len(cands)) \ dupIdx)
             IN  /\ c.rep.dupCount = Cardinality(dupIdx)
                 /\ Len(c.tasks) = Len(fresh)
                 /\ \A i \in 1..Len(fresh) : c.tasks[i].cand = fresh[i]
                 /\ HasServices(fb) => \A i \in 1..Len(fresh) : c.tasks[i].st = "create"
                 /\ c.rep.remote = IF HasServices(fb) THEN Len(fresh) ELSE 0]_vars
  /\ [](\A s \in UserSlots :
          calls[s].kind = "addUrls"
          => /\ calls[s].rep.failCount <= CountSt(calls[s].tasks, "fail")
             /\ calls[s].rep.okCount + calls[s].rep.failCount <= Len(calls[s].tasks))

\* An addUrls call that skipped one duplicate and persisted one new URL.
C5_Witness ==
  \E s \in UserSlots :
    /\ calls[s].kind = "addUrls"
    /\ calls[s].pc = "done"
    /\ calls[s].rep.dupCount = 1
    /\ Len(calls[s].tasks) = 1
    /\ calls[s].tasks[1].st = "ok"
    /\ calls[s].rep.failCount = 0

IsFileDuplicate(f, list) ==
  \E j \in 1..Len(list) :
    list[j].type = "file" /\ list[j].name = f.name /\ list[j].size = f.size

\* C6: addFiles counts as duplicates exactly the valid files whose name and
\* size some file item of the list has, starts an upload for every other
\* valid file and for no duplicate, and a blob is stored only by such an
\* upload.
C6_FileDuplicates ==
  /\ [][\A s \in UserSlots :
          (Starts(s, "addFiles") /\ HasOps(fb))
          => LET c      == calls'[s]
                 res    == validateFiles(c.files, fileConfig)
                 valid  == FilterSeq(c.files, {i \in 1..Len(c.files) : res[i].isValid})
                 dupIdx == {i \in 1..Len(valid) : IsFileDuplicate(valid[i], items)}
                 fresh  == FilterSeq(valid, (1..Len(valid)) \ dupIdx)
             IN  /\ c.rep.dupCount = Cardinality(dupIdx)
                 /\ Len(c.tasks) = Len(fresh)
                 /\ \A i \in 1..Len(fresh) : c.tasks[i].cand = fresh[i]
                 /\ HasServices(fb) => \A i \in 1..Len(fresh) : c.tasks[i].st = "upload"]_vars
  /\ [][(blobs' \ blobs # {})
        => \E s \in UserSlots : \E i \in 1..Len(calls[s].tasks) :
             /\ calls[s].kind = "addFiles"
             /\ calls[s].tasks[i].st = "upload"
             /\ calls'[s].tasks[i].up \in blobs' \ blobs]_vars

\* An addFiles call on a file of the list and a file with the same name and
\* another size: the first was skipped, the second uploaded and recorded.
C6_Witness ==
  \E s \in UserSlots :
    /\ calls[s].kind = "addFiles"
    /\ calls[s].files = <<FileA2, FileA1>>
    /\ calls[s].rep.dupCount = 1
    /\ Len(calls[s].tasks) = 1
    /\ calls[s].tasks[1].cand = FileA2
    /\ calls[s].tasks[1].st = "ok"
    /\ calls[s].tasks[1].up \in blobs

\* ---------------------------------------------------------------------- C7
\* The call in slot s, a call of kind k, takes this step.
Steps(s, k) ==
  calls[s].kind = k /\ calls'[s].kind = k /\ calls'[s] # calls[s]

Without(list, id) == FilterSeq(list, {j \in 1..Len(list) : list[j].id # id})

\* C7: deleteItem on a record with a storageRef attempts the deletion of the
\* blob before that of the record and goes on to delete the record whether
\* or not the blob was deleted; the item leaves the local list only in the
\* step in which the deletion of the record succeeded, and the list is as it
\* was when the call ends in a failure.
C7_DeleteOrder ==
  [][\A s \in UserSlots :
       Steps(s, "deleteItem")
       => LET c  == calls[s]
              c2 == calls'[s]
          IN  /\ (/\ c.pc = "delGet"
                  /\ c2.pc # "done"
                  /\ HasDoc(store, c.id)
                  /\ DocOf(store, c.id).storageRef # 0)
                 => (c2.pc = "delFile" /\ c2.ref = DocOf(store, c.id).storageRef)
              /\ c.pc = "delFile"
                 => (c2.pc = "delDoc" /\ c2.phase = 1 /\ UNCHANGED <<store, items>>)
              /\ store' # store
                 => (c.pc = "delDoc" /\ (c.ref # 0 => c.phase = 1))
              /\ items' # items
                 => /\ c.pc = "delDoc"
                    /\ c2.phase = 2
                    /\ ~HasDoc(store', c.id)
                    /\ items' = Without(items, c.id)
              /\ (c2.pc = "done" /\ c2.phase # 2)
                 => /\ UNCHANGED <<store, items>>
                    /\ c2.rep.errToasts = c.rep.errToasts + 1
                    /\ c2.rep.okToasts = 0]_vars

\* A deleteItem call that returned with the record deleted and the item out
\* of the list, the blob of the record still stored: its deletion failed.
C7_Witness ==
  \E s \in UserSlots :
    /\ calls[s].kind = "deleteItem"
    /\ calls[s].pc = "done"
    /\ calls[s].phase = 2
    /\ calls[s].ref # 0
    /\ calls[s].ref \in blobs
    /\ ~HasDoc(store, calls[s].id)
    /\ calls[s].id \notin ItemIds(items)
    /\ calls[s].rep.okToasts = 1

\* ---------------------------------------------------------------------- C8
\* item with the fields of patch replaced and updatedAt set to t.
PatchedLike(item2, item, patch, t) ==
  /\ DOMAIN item2 = DOMAIN item
  /\ \A f \in DOMAIN item :
       item2[f] = IF f = "updatedAt" THEN t
                  ELSE IF f \in DOMAIN patch THEN patch[f]
                  ELSE item[f]

\* C8: updateItem changes the local list only in the step that follows the
\* write of the patch to the remote record; that step gives the item with
\* the id the fields of the patch and a later updatedAt, and leaves every
\* other item and every other field as it was; a call whose remote update
\* failed leaves the list as it was and shows one error.
C8_UpdateAfterRemote ==
  /\ [][\A s \in UserSlots :
          Steps(s, "updateItem")
          => LET c  == calls[s]
                 c2 == calls'[s]
             IN  IF c2.tasks[1].st = "ok"
                   THEN /\ c.tasks[1].st = "getDoc"
                        /\ c.tasks[1].up # 0
                        /\ HasDoc(store, c.id)
                        /\ Len(items') = Len(items)
                        /\ \A j \in 1..Len(items) :
                             IF items[j].id = c.id
                               THEN /\ PatchedLike(items'[j], items[j], c.patch, now)
                                    /\ items'[j].updatedAt > items[j].updatedAt
                               ELSE items'[j] = items[j]
                        /\ c2.rep.okToasts = c.rep.okToasts + 1
                   ELSE /\ items' = items
                        /\ c2.tasks[1].st = "fail"
                           => (c2.pc = "done" /\ c2.rep.errToasts = c.rep.errToasts + 1)]_vars
  /\ [](\A s \in UserSlots :
          (calls[s].kind = "updateItem" /\ calls[s].pc = "done"
           /\ calls[s].tasks[1].st = "fail")
          => /\ calls[s].rep.okToasts = 0
             /\ calls[s].rep.errToasts + calls[s].rep.setErr = 1)

\* An updateItem call that returned with the item patched in a list of
\* several items, another of them as the collection had it.
C8_Witness ==
  \E s \in UserSlots :
    /\ calls[s].kind = "updateItem"
    /\ calls[s].pc = "done"
    /\ calls[s].tasks[1].st = "ok"
    /\ calls[s].rep.okToasts = 1
    /\ \E j, k \in 1..Len(items) :
         /\ items[j].id = calls[s].id
         /\ \A f \in DOMAIN calls[s].patch : items[j][f] = calls[s].patch[f]
         /\ items[j].updatedAt > calls[s].tasks[1].up
         /\ items[k].id # calls[s].id
         /\ items[k].updatedAt = 0

\* ---------------------------------------------------------------------- C9
\* Task i of the processAll call in slot s has its update applied in this
\* step, in the immediate step (phase 1) or the delayed one (phase 2).
ProcessApplies(s, i, phase) ==
  /\ Steps(s, "processAll")
  /\ calls[s].phase = phase
  /\ calls'[s].phase = phase
  /\ i \in 1..Len(calls[s].tasks)
  /\ calls[s].tasks[i].st = "getDoc"
  /\ calls'[s].tasks[i].st = "ok"

StatusOf(list, id) == {list[j].status : j \in {k \in 1..Len(list) : list[k].id = id}}

\* C9: processAll moves the items that were pending at the call to
\* processing, then, after the delay, to completed, and changes the status of
\* no other item.
C9_ProcessAllCompletes ==
  [][\A s \in UserSlots : \A i \in 1..Len(calls[s].tasks) :
       LET id == calls[s].tasks[i].cand
       IN  /\ ProcessApplies(s, i, 1)
              => StatusOf(items', id) \subseteq {"processing"}
           /\ ProcessApplies(s, i, 2)
              => StatusOf(items', id) \subseteq {"completed"}
           /\ (ProcessApplies(s, i, 1) \/ ProcessApplies(s, i, 2))
              => \A j \in 1..Len(items) :
                   items[j].id # id => items'[j].status = items[j].status]_vars

\* --------------------------------------------------------------------- C10
EngineOperations ==
  {"addUrls", "addFiles", "updateItem", "deleteItem", "loadMore", "processAll"}

\* The errors of a call that name no candidate: setError and the toasts other
\* than the per-item summaries.
TopLevelErrors(c) == c.rep.setErr + c.rep.errToasts

\* C10: an engine operation called while the remote store is not initialized
\* issues no remote operation, shows no success message and no per-item
\* summary, and reports one top-level error (loadMore at most one).
C10_NotInitialized ==
  \A s \in UserSlots :
    LET c == calls[s]
    IN  (c.kind \in EngineOperations /\ c.pc = "done" /\ ~HasServices(c.env))
        => /\ c.rep.remote = 0
           /\ c.rep.okToasts = 0
           /\ c.rep.okCount = 0
           /\ c.rep.failCount = 0
           /\ IF c.kind = "loadMore" THEN TopLevelErrors(c) <= 1
              ELSE TopLevelErrors(c) = 1

\* --------------------------------------------------------------------- C12
UniqueIds(list) ==
  \A i, j \in 1..Len(list) : i # j => list[i].id # list[j].id

\* The loadMore call in slot s appends its page in this step.
LoadMoreAppends(s) ==
  /\ calls[s].kind = "loadMore"
  /\ calls[s].pc = "queried"
  /\ calls[s].resOk
  /\ calls'[s].pc = "done"

\* C12: the item list never holds two items with the same id; in particular
\* a loadMore that finds the list free of repeated ids leaves it so, because
\* it appends only items that follow the last one held.
C12_UniqueIds ==
  [][\A s \in UserSlots :
       (LoadMoreAppends(s) /\ UniqueIds(items)) => UniqueIds(items')]_vars

\* --------------------------------------------------------------------- C13
\* The refresh() run by the call in slot s (called by the user, by the
\* initial-load effect or at the end of an ingestion) completes in this step.
RefreshCompletes(s) ==
  /\ calls[s].kind # "loadMore"
  /\ calls[s].pc = "queried"
  /\ calls'[s].pc = "done"

\* C13: a refresh that completes successfully leaves the item list equal to
\* the result of its query and hasMore as that result says; a refresh whose
\* query fails leaves the item list unchanged and sets the error slot.
C13_RefreshReplaces ==
  [][\A s \in Slots :
       RefreshCompletes(s)
       => IF calls[s].resOk
            THEN items' = calls[s].res /\ hasMore' = calls[s].resMore
            ELSE items' = items /\ error' # "none"]_vars

\* An addUrls call has finished with its refresh: the list is the page of the
\* store, newest record first, where the optimistic append had put it last.
C13_Witness ==
  \E s \in UserSlots :
    /\ calls[s].kind = "addUrls"
    /\ calls[s].pc = "done"
    /\ calls[s].rep.queries = 1
    /\ calls[s].rep.errToasts = 0
    /\ error = "none"
    /\ Len(items) >= 2
    /\ items = queryContent(store, queryOptions).items
    /\ items[1].id = nextId - 1

\* --------------------------------------------------------------------- C19
ErrorOnlyInError(list) ==
  \A j \in 1..Len(list) : list[j].error # "" => list[j].status = "error"

\* C19: an item carries an error message only while its status is 'error',
\* in the item list and in the remote collection: an update that moves an
\* item from 'error' to another status clears the message.
C19_ErrorDetail ==
  ErrorOnlyInError(items) /\ ErrorOnlyInError(store)

\* --------------------------------------------------------------------- C11
\* The step in which a handler starts its second loadMore() call.
StartsAgain ==
  /\ ncalls' = ncalls + 1
  /\ calls'[AgainSlot].kind = "loadMore"
  /\ calls'[AgainSlot] # calls[AgainSlot]

\* C11: a loadMore call made while a load is in flight or while hasMore is
\* false issues no query and changes no state of the hook, and of two
\* loadMore calls made one after the other at most one issues a query.
C11_LoadMoreGuard ==
  [][\A s \in UserSlots :
       Starts(s, "loadMore")
       => /\ (HasOps(fb) /\ (loading \/ ~hasMore))
             => (calls'[s].rep.queries = 0 /\ UNCHANGED hookVars)
          /\ StartsAgain
             => ~(calls'[s].rep.queries = 1 /\ calls'[AgainSlot].rep.queries = 1)]_vars

\* --------------------------------------------------------------------- C20
\* The interval fires in this step and its refresh() has run up to its query
\* or its return.
TickRuns ==
  /\ calls[TimerSlot].kind = "none"
  /\ calls'[TimerSlot].kind = "refresh"

\* C20: with auto-refresh on, every firing of the interval while the remote
\* store is ready issues a refresh query, also when the store became ready
\* after the hook was mounted.
C20_AutoRefreshQueries ==
  [][(TickRuns /\ FirebaseReady(fb) /\ HasOps(fb))
       => calls'[TimerSlot].rep.queries = 1]_vars

\* --------------------------------------------------------------------- C14
Applied(fn) == probe.fn = fn /\ probe.applied

TotalSize(files) == SumSeq([i \in 1..Len(files) |-> files[i].size])

\* C14: validateFiles marks every file of a batch invalid, with the total
\* size error, when maxTotalSize is set and the sizes of the batch add up to
\* more; otherwise each result is what validateFile gives for that file.
C14_TotalSize ==
  Applied("validateFiles")
  => LET files == probe.arg
         config == probe.config
         out == probe.out
     IN  /\ Len(out) = Len(files)
         /\ IF config.maxTotalSize # Undefined /\ TotalSize(files) > config.maxTotalSize
              THEN \A i \in 1..Len(files) :
                     /\ out[i].file = files[i]
                     /\ ~out[i].isValid
                     /\ out[i].error = "total size"
              ELSE \A i \in 1..Len(files) : out[i] = validateFile(files[i], config)

\* Two files, each one valid on its own, whose sizes add up to more than
\* maxTotalSize: both are returned invalid.
C14_Witness ==
  /\ Applied("validateFiles")
  /\ Len(probe.arg) = 2
  /\ probe.config.maxTotalSize = 3
  /\ TotalSize(probe.arg) > 3
  /\ \A i \in 1..2 : /\ validateFile(probe.arg[i], probe.config).isValid
                     /\ ~probe.out[i].isValid

\* --------------------------------------------------------------------- C15
\* C15: validateFile accepts a file exactly when it has an extension, the
\* extension (as getFileExtension returns it) is not in blockedExtensions,
\* allowedExtensions is empty or contains it, and the size is greater than 0
\* and at most maxFileSize; an extension in both lists is rejected.
C15_ValidateFile ==
  Applied("validateFile")
  => LET file == probe.arg
         config == probe.config
         extension == getFileExtension(file.name)
     IN  probe.out.isValid
         <=> /\ extension # <<>>
             /\ extension \notin Range(config.blockedExtensions)
             /\ \/ Len(config.allowedExtensions) = 0
                \/ extension \in Range(config.allowedExtensions)
             /\ file.size > 0
             /\ file.size <= config.maxFileSize

\* A file of a good size whose extension is in both lists has been rejected
\* as blocked.
C15_Witness ==
  /\ Applied("validateFile")
  /\ getFileExtension(probe.arg.name) \in Range(probe.config.blockedExtensions)
  /\ getFileExtension(probe.arg.name) \in Range(probe.config.allowedExtensions)
  /\ probe.arg.size = 1
  /\ ~probe.out.isValid
  /\ probe.out.error = "blocked"

\* --------------------------------------------------------------------- C16
\* The list has an entry equal to the extension up to letter case.
MatchesIgnoringCase(extension, list) ==
  \E i \in 1..Len(list) : LowerSeq(list[i]) = LowerSeq(extension)

\* C16: validateFile compares the extension of a file with the entries of
\* the two lists without regard to letter case, in the file name and in the
\* entries: a file whose extension matches a blocked entry is rejected, and a
\* file of a good size whose extension matches an allowed entry and no
\* blocked one is accepted.
C16_CaseInsensitive ==
  Applied("validateFile")
  => LET file == probe.arg
         config == probe.config
         extension == getFileExtension(file.name)
     IN  /\ (extension # <<>> /\ MatchesIgnoringCase(extension, config.blockedExtensions))
            => ~probe.out.isValid
         /\ ( /\ extension # <<>>
              /\ ~MatchesIgnoringCase(extension, config.blockedExtensions)
              /\ MatchesIgnoringCase(extension, config.allowedExtensions)
              /\ file.size \in 1..config.maxFileSize )
            => probe.out.isValid

\* --------------------------------------------------------------------- C18
\* The host is the domain or one of its subdomains, letter case apart.
HostUnder(host, domain) ==
  LET h == LowerSeq(host)
      d == LowerSeq(domain)
  IN  \/ h = d
      \/ /\ Len(h) > Len(d)
         /\ \A i \in 1..Len(d) : h[Len(h) - Len(d) + i] = d[i]

HostUnderAny(host, domains) ==
  \E i \in 1..Len(domains) : HostUnder(host, domains[i])

\* C18: validateUrl rejects a URL whose scheme is not in allowedProtocols,
\* rejects a URL whose host is an entry of blockedDomains or a subdomain of
\* one, and, when allowedDomains is not empty, accepts only URLs whose host
\* is an entry of allowedDomains or a subdomain of one; a host under both
\* lists is rejected.
C18_ValidateUrlRules ==
  Applied("validateUrl")
  => LET url == probe.arg
         config == probe.config
     IN  /\ ToLowerCase(url.scheme) \notin Range(config.allowedProtocols)
            => ~probe.out.isValid
         /\ HostUnderAny(url.host, config.blockedDomains)
            => ~probe.out.isValid
         /\ (Len(config.allowedDomains) > 0 /\ probe.out.isValid)
            => HostUnderAny(url.host, config.allowedDomains)

\* A URL of an allowed scheme whose host is a subdomain of a domain that is
\* both blocked and allowed has been rejected as blocked.
C18_Witness ==
  /\ Applied("validateUrl")
  /\ probe.arg.host = <<"s", "x", "com">>
  /\ HostUnderAny(probe.arg.host, probe.config.blockedDomains)
  /\ HostUnderAny(probe.arg.host, probe.config.allowedDomains)
  /\ ~probe.out.isValid
  /\ probe.out.error = "blocked"

\* --------------------------------------------------------------------- C17
NoRepeats(s) == \A i, j \in 1..Len(s) : i # j => s[i] # s[j]

\* The lines of the text that validateUrl accepts and normalizes to u.
LinesGiving(u, text, config) ==
  {i \in 1..Len(text) :
     validateUrl(text[i], config).isValid /\ validateUrl(text[i], config).url = u}

SetMin(S) == CHOOSE m \in S : \A n \in S : m <= n

\* Every entry comes from a line of the text, and the entries stand in the
\* order of the first lines that give them.
FirstSeenOrder(out, text, config) ==
  /\ \A k \in 1..Len(out) : LinesGiving(out[k], text, config) # {}
  /\ \A j, k \in 1..Len(out) :
       j < k => SetMin(LinesGiving(out[j], text, config))
                < SetMin(LinesGiving(out[k], text, config))

\* C17: extractUrls returns no entry twice, returns the entries in the order
\* in which the text first has them, and returns only URLs that validateUrl
\* accepts under the same configuration.
C17_ExtractUrls ==
  Applied("extractUrls")
  => /\ NoRepeats(probe.out)
     /\ FirstSeenOrder(probe.out, probe.arg, probe.config)
     /\ \A k \in 1..Len(probe.out) : validateUrl(probe.out[k], probe.config).isValid

\* --------------------------------------------------------------------- C30
\* The store has answered the query of the call in slot s.
Answered(s) == calls[s].pc = "queried" /\ calls[s].resOk

\* C30: queryContent reports hasMore only when a pagination limit is set and
\* as many items as the limit are returned: without a limit hasMore is false,
\* also when no item is returned.
C30_HasMore ==
  \A s \in Slots :
    Answered(s)
    => (calls[s].resMore
        <=> (queryOptions.limit > 0 /\ Len(calls[s].res) = queryOptions.limit))

\* --------------------------------------------------------------------- C28
\* The query of the call in slot s has been issued and not answered.
InFlight(s) == calls[s].pc = "query"

\* C28: the loading flag is true whenever a refresh or loadMore query is in
\* flight, also when two of them overlap.
C28_LoadingWhileInFlight ==
  (\E s \in Slots : InFlight(s)) => loading

\* --------------------------------------------------------------------- C29
\* The batch of the addFiles call in slot s has settled and been summed up.
BatchSettled(s) ==
  /\ calls[s].kind = "addFiles"
  /\ calls[s].pc \in {"query", "queried", "done"}
  /\ Len(calls[s].tasks) > 0

\* C29: when an addFiles batch has settled, every blob that the batch has
\* uploaded is the storageRef of a record of the collection.
C29_NoOrphanBlob ==
  \A s \in UserSlots :
    BatchSettled(s)
    => \A i \in 1..Len(calls[s].tasks) :
         calls[s].tasks[i].up \in blobs
         => \E j \in 1..Len(store) : store[j].storageRef = calls[s].tasks[i].up

\* --------------------------------------------------------------------- C25
\* processAll shows its 'Started processing' message in this step.
ReportsStarted(s) ==
  /\ Steps(s, "processAll")
  /\ calls[s].pc = "updating"
  /\ calls'[s].pc = "timer"

ProcessingSucceeded(s) ==
  {i \in 1..Len(calls[s].tasks) : calls[s].tasks[i].st = "ok"}

\* The delayed step completes only items that the first step had moved to
\* processing.
CompletesOnlyProcessing ==
  \A s \in UserSlots : \A i \in 1..Len(calls[s].tasks) :
    ProcessApplies(s, i, 2)
    => StatusOf(items, calls[s].tasks[i].cand) \subseteq {"processing"}

\* The message counts the items whose update to processing succeeded.
StartedCountsSucceeded ==
  \A s \in UserSlots :
    ReportsStarted(s)
    => calls'[s].rep.okCount = Cardinality(ProcessingSucceeded(s))

\* C25: the delayed step of processAll completes an item only if its update
\* to processing succeeded, and processAll reports that processing started
\* only for the items whose update to processing succeeded.
C25_CompletedOnlyAfterProcessing ==
  [][CompletesOnlyProcessing /\ StartedCountsSucceeded]_vars

\* --------------------------------------------------------------------- C27
\* No call of the hook is waiting for anything.
Quiescent == \A s \in Slots : calls[s].pc \in {"idle", "done"}

\* The item list shows the record id with the fields of patch as the
\* collection has them.
AgreesOn(id, patch) ==
  \A j \in 1..Len(items) :
    (items[j].id = id /\ HasDoc(store, id))
    => \A f \in DOMAIN patch : items[j][f] = DocOf(store, id)[f]

\* C27: when everything in flight has settled after a successful updateItem
\* or deleteItem, the item list agrees with the collection on that item: a
\* query issued before the change and answered to the hook after it brings
\* neither the old field values nor the deleted item back.
C27_NoStaleReinstatement ==
  Quiescent
  => \A s \in UserSlots :
       /\ ( /\ calls[s].kind = "updateItem"
            /\ Len(calls[s].tasks) = 1
            /\ calls[s].tasks[1].st = "ok" )
          => AgreesOn(calls[s].id, calls[s].patch)
       /\ ( /\ calls[s].kind = "deleteItem"
            /\ calls[s].phase = 2
            /\ ~HasDoc(store, calls[s].id) )
          => calls[s].id \notin ItemIds(items)

\* --------------------------------------------------------------------- C26
\* C26: the collection never holds two url records with the same normalized
\* URL, whatever part of the collection the item list shows when addUrls is
\* called.
C26_NoDuplicateUrlRecords ==
  \A i, j \in 1..Len(store) :
    (i # j /\ store[i].type = "url" /\ store[j].type = "url")
    => store[i].url # store[j].url

\* --------------------------------------------------------------------- C21
RECURSIVE SumOver(_, _)
\* The sum of the counts of a counter over the keys S.
SumOver(counts, S) ==
  IF S = {} THEN 0
  ELSE LET k == CHOOSE x \in S : TRUE
       IN  counts[k] + SumOver(counts, S \ {k})

FileSizes(list) ==
  SumSeq([j \in 1..Len(list) |-> IF list[j].type = "file" THEN list[j].size ELSE 0])

C22_DragOverCounts ==
  drag.enabled => (drag.isDragOver <=> drag.enters > drag.leaves)

\* After a drop, a drag has entered the zone and a child of it and has left
\* the child: isDragOver is true.
C22_Witness ==
  /\ drag.enabled
  /\ drag.source = "drop"
  /\ drag.enters = 2
  /\ drag.leaves = 1
  /\ drag.dragCounter = 1
  /\ drag.isDragOver

\* --------------------------------------------------------------------- C23
\* The files of a drop or selection that validateFiles accepts under the
\* fileConfig of the hook; all of them when the hook has no fileConfig.
Accepted(files, hasFileConfig) ==
  IF hasFileConfig
    THEN FilterSeq(files, {i \in 1..Len(files) :
                             validateFiles(files, fileConfig)[i].isValid})
    ELSE files

\* C23: useDragDrop calls onFilesDropped only with a non-empty list, made of
\* exactly the dropped or selected files that validateFiles accepts, and does
\* not call it when multiple is false and several files are supplied: it
\* calls onValidationError then.
C23_FilesDropped ==
  drag.source # "none"
  => /\ Len(drag.dropped) <= 1
     /\ \A k \in 1..Len(drag.dropped) :
          /\ drag.dropped[k] # <<>>
          /\ drag.dropped[k] = Accepted(drag.files, drag.hasFileConfig)
     /\ (~drag.multiple /\ Len(drag.files) > 1)
        => (drag.dropped = <<>> /\ drag.errors = 1)

\* Two files selected, one of a blocked extension: onFilesDropped has been
\* called with the other one and onValidationError once.
C23_Witness ==
  /\ drag.source = "select"
  /\ drag.hasFileConfig
  /\ drag.files = <<FileA2, FileX1>>
  /\ drag.dropped = << <<FileA2>> >>
  /\ drag.errors = 1

\* --------------------------------------------------------------------- C24
\* The count that the handler of the component passes to onContentAdded for
\* the ingestion call c: urls.length of its own extractUrls, or files.length.
ContentAddedCount(c) ==
  IF c.kind = "addUrls" THEN Len(extractUrls(c.text, urlConfig)) ELSE Len(c.files)

\* handleUrlSubmit / handleUrlsPasted / handleFilesDropped of the component
\* have called onContentAdded for the ingestion call c: the component has a
\* content manager, the handler has not returned before the call of the
\* hook, and the awaited call has returned.
OnContentAddedCalled(c) ==
  /\ IsIngestion(c)
  /\ c.pc = "done"
  /\ HasOps(c.env)
  /\ ContentAddedCount(c) > 0

\* C24: the component calls onContentAdded only when content was added, with
\* the number of items the action has persisted.  Stated for the actions
\* that get as far as writing to an initialized store.
C24_ContentAddedCount ==
  \A s \in UserSlots :
    ( /\ OnContentAddedCalled(calls[s])
      /\ HasServices(calls[s].env)
      /\ Len(calls[s].tasks) > 0 )
    => /\ calls[s].rep.okCount > 0
       /\ ContentAddedCount(calls[s]) = calls[s].rep.okCount

====
